---- MODULE Spec2Model ----
(***************************************************************************)
(* Model of the locator rebinding ("same xpath" propagation) of            *)
(* rpf.ConsoleManager: updateElementAtLine_, the search for steps bound to  *)
(* the same primary xpath, the confirmation dialog and its Replace and      *)
(* Cancel buttons.                                                          *)
(*                                                                          *)
(* Representation                                                           *)
(*   InfoMap   [steps, elems].  steps is a sequence of [key, stepName,      *)
(*             elemId] in the order a JavaScript for-in loop visits the     *)
(*             keys of infoMap['steps']; elems is a function from the keys  *)
(*             of infoMap['elems'] to element records.                      *)
(*   Element   [xpaths, selectors, descriptor, iframeInfo, rest]; rest      *)
(*             stands for every other property of the element object.       *)
(*   Test      [name, infoMap]: the entry of projectInfo_.getTests(), its   *)
(*             datafile already decoded by trimInfoMap.                     *)
(*   Undef     JavaScript's undefined (the value of a missing property).    *)
(***************************************************************************)
EXTENDS Integers, Sequences, FiniteSets, TLC

VARIABLES
  infoMap_,      \* this.infoMap_: the InfoMap of the test open in the console
  testName,      \* the value of the test-name field, read by getTestName_
  projectInfo_,  \* this.projectInfo_: [tests, loadFrom]
  store,         \* the tests of the project as held by the local server
  toBg,          \* messages sent with messenger_.sendMessage, not yet handled
  listeners,     \* the listeners held by updateAllHandler_
  dialog,        \* the confirmation surface: [open, data, loadFrom]
  nRebinds,      \* number of UPDATE_ELEMENT_AT_LINE commands handled so far
  last,          \* what the last handler did (its inputs and outcome)
  \* rpf.ExportDialog
  data_,         \* this.data_: the project loaded from the server, or null
  elementsDisabled, \* the dialog's elements carry the disabled attribute
  nameValue,     \* elements_[NAME].value, the project name typed in
  location,      \* the value of the checked location radio, "" if none is
  requests,      \* project requests sent to the messenger, not yet answered
  exported,      \* the export requests made by handleExport_
  nRequests,     \* number of requestData_ and handleSave_ calls so far
  lastExport,    \* what the last handler of the export dialog did
  ready_,        \* this.ready_
  dialog_,       \* this.dialog_: "null", or the goog.ui.Dialog, "hidden" or
                 \* "visible"
  elements_,     \* this.elements_: "empty" ({}) or "loaded"
  handlersStatic_,  \* this.handlersStatic_: "null" or "listening"
  handlersDynamic_, \* this.handlersDynamic_: "null" or "empty"
  saveRequests,  \* save requests sent to the messenger, not yet answered
  \* rpf.ConsoleManager: recording, playback and the console mode
  noConsole_,    \* this.noConsole_: constructed without the console UI
  isRecording_,  \* this.isRecording_
  isPlaying_,    \* this.isPlaying_
  mode_,         \* this.mode_
  btnsVisible,   \* the toolbar buttons of btns_ that are visible
  images,        \* the src of the record, stop, validate and worker images
  lastCmd,       \* what the last command of the console did
  \* rpf.ConsoleManager: the project names kept in localStorage
  projectNames,  \* the item 'projectNames' of localStorage
  nNames,        \* number of distinct project names saved so far
  nResaves,      \* number of saves of a name that had been saved before
  lastSave,      \* the last call on the stored project names
  \* rpf.ConsoleManager: the script in the editor
  code,          \* the text held by the editor manager (getCode/setCode)
  lineToInsert_, \* this.lineToInsert_
  recordedScript_, \* this.recordedScript_
  nCmds          \* number of commands added so far

lifecycleVars == <<ready_, dialog_, elements_, handlersStatic_,
                   handlersDynamic_, saveRequests>>

exportVars == <<data_, elementsDisabled, nameValue, location, requests,
                exported, nRequests, lastExport, lifecycleVars>>

modeVars == <<noConsole_, isRecording_, isPlaying_, mode_, btnsVisible,
              images, lastCmd>>

storageVars == <<projectNames, nNames, nResaves, lastSave>>

editorVars == <<code, lineToInsert_, recordedScript_, nCmds>>

consoleVars == <<modeVars, storageVars, editorVars>>

vars == <<infoMap_, testName, projectInfo_, store, toBg, listeners, dialog,
          nRebinds, last, exportVars, consoleVars>>

----------------------------------------------------------------------------
(* Bounds and data domains *)

MaxRebinds == 2

LOCAL_ == "local"
WEB_ == "web"

Undef == "undefined"
\* The value of an Array-or-null expression: null, or the array with the
\* given elements.
JsNull == [isNull |-> TRUE, steps |-> <<>>]
JsArray(elements) == [isNull |-> FALSE, steps |-> elements]
NoDialog == [open |-> FALSE, data |-> <<>>, loadFrom |-> ""]
ProjectName == "P"

TestNames == <<"T1", "T2">>
StepKeys == <<"s1", "s2">>
ElemIds == <<"e1", "e2">>
\* number of steps and of elements of the i-th test of the project
NumSteps == <<2, 1>>
NumElems == <<2, 1>>

XpathSeqs == {<<"x">>, <<"y", "x">>, <<>>}

Element(xp) ==
  [xpaths |-> xp, selectors |-> "sel0", descriptor |-> "d0",
   iframeInfo |-> "f0", rest |-> "r0"]

CmdMaps ==
  {[xpaths |-> <<"z">>, selectors |-> "sel1", descriptor |-> "d1",
    iframeInfo |-> "f1"],
   [xpaths |-> <<"x", "z">>, selectors |-> "sel1", descriptor |-> "d1",
    iframeInfo |-> "f1"]}

\* The InfoMaps with exactly ns steps (keys StepKeys[1..ns], in this order)
\* and exactly ne elements (keys ElemIds[1..ne]).  A step's elemId is one
\* of the element keys or unset; its stepName is its key, which is what the
\* checkbox of a match hands back to handleReplaceButton_ as the step id.
InfoMaps(ns, ne) ==
  LET ids == {ElemIds[k] : k \in 1..ne} \cup {Undef}
      StepSeqs == {s \in [1..ns -> [key : {StepKeys[k] : k \in 1..ns},
                                    stepName : {StepKeys[k] : k \in 1..ns},
                                    elemId : ids]] :
                     \A k \in 1..ns : /\ s[k].key = StepKeys[k]
                                      /\ s[k].stepName = StepKeys[k]}
      ElemFuns == [{ElemIds[k] : k \in 1..ne} -> {Element(xp) : xp \in XpathSeqs}]
  IN  {[steps |-> s, elems |-> e] : s \in StepSeqs, e \in ElemFuns}

Projects ==
  {<<[name |-> TestNames[1], infoMap |-> a],
     [name |-> TestNames[2], infoMap |-> b]>> :
       a \in InfoMaps(NumSteps[1], NumElems[1]),
       b \in InfoMaps(NumSteps[2], NumElems[2])}

----------------------------------------------------------------------------
(* rpf.ExportDialog: data *)

MaxRequests == 2

\* this.data_ = null
NullData == [isNull |-> TRUE, page_map |-> "", tests |-> ""]

\* The response object handed to requestDataComplete_.  isObject: it is an
\* object at all (not null or undefined); jsonObj: it has a jsonObj that is
\* not null; error: the jsonObj has the key error; details: "absent" (no
\* project_details, or null), "noPageMap", "noJavaPackagePath" (one key
\* missing), "both", or "text" (project_details is a non-empty string, not
\* an object); page_map: typeof 'object', a string goog.json.parse
\* accepts ("json"), a string it rejects ("text"), or another type
\* ("number"); codeThrows: bite.webdriver.getWebdriverCode throws on the
\* data; tests: no tests key or null ("absent"), [] ("empty"), or "some".
NoResponse ==
  [isObject |-> FALSE, jsonObj |-> FALSE, error |-> FALSE,
   details |-> "absent", page_map |-> "object", codeThrows |-> FALSE,
   tests |-> "absent"]

Responses ==
  [isObject : {TRUE}, jsonObj : BOOLEAN, error : BOOLEAN,
   details : {"absent", "noPageMap", "noJavaPackagePath", "both", "text"},
   page_map : {"object", "json", "text", "number"},
   codeThrows : BOOLEAN, tests : {"absent", "empty", "some"}]
    \cup {NoResponse}

\* The record kept in lastExport
NoExportOp == [op |-> "init", callback |-> "", response |-> NoResponse,
               threw |-> FALSE, called |-> FALSE]

\* The export dialog initialised and not used: no project name typed in, no
\* location chosen, nothing loaded
ExportDialogIdle ==
  /\ data_ = NullData
  /\ elementsDisabled = FALSE
  /\ nameValue = ""
  /\ location = ""
  /\ requests = <<>>
  /\ exported = <<>>
  /\ nRequests = 0
  /\ lastExport = NoExportOp
  /\ ready_ = TRUE
  /\ dialog_ = "hidden"
  /\ elements_ = "loaded"
  /\ handlersStatic_ = "listening"
  /\ handlersDynamic_ = "empty"
  /\ saveRequests = <<>>

----------------------------------------------------------------------------
(* rpf.ConsoleManager: console modes and toolbar buttons *)

\* The keys of Bite.Constants.ConsoleModes
ConsoleModes ==
  {"IDLE", "RECORD", "PLAY", "DEFINE", "PAUSE", "WORKER", "UPDATER", "VIEW"}

\* The keys of rpf.ConsoleManager.Buttons; init_ puts a toolbar button for
\* each of them in btns_
Buttons ==
  {"ADD_CMD", "EXPORT", "INFO", "LOAD", "NOTES", "RECORD", "REFRESH", "SAVE",
   "SCREEN", "SETTING", "PLAY", "STOP", "VALIDATE", "WORKER"}

\* An entry of ModeInfo.modeAndBtns: an object with a 'btns' list, or the
\* empty array [] (which has no 'btns' property)
BtnsOf(list) == [hasBtns |-> TRUE, btns |-> list]
EmptyArray == [hasBtns |-> FALSE, btns |-> <<>>]

\* rpf.ConsoleManager.ModeInfo: modeAndBtns
modeAndBtns ==
  [m \in ConsoleModes |->
     CASE m = "IDLE" -> BtnsOf(<<"LOAD", "PLAY", "RECORD", "EXPORT",
                                 "SETTING", "REFRESH">>)
       [] m = "RECORD" -> BtnsOf(<<"STOP", "SETTING", "REFRESH">>)
       [] m = "PLAY" -> BtnsOf(<<"SETTING", "PLAY", "REFRESH">>)
       [] m = "DEFINE" -> EmptyArray
       [] m = "PAUSE" -> EmptyArray
       [] m = "WORKER" -> BtnsOf(<<"SETTING", "REFRESH">>)
       [] m = "UPDATER" -> BtnsOf(<<"REFRESH">>)
       [] m = "VIEW" -> BtnsOf(<<"LOAD", "SAVE", "PLAY", "SCREEN", "RECORD",
                                 "EXPORT", "SETTING", "REFRESH">>)]

\* The elements of a list
Range(list) == {list[k] : k \in DOMAIN list}

\* The record kept in lastCmd: the command, its argument, whether it ended
\* with an exception, and the commands it sent to the messenger
NoCmd == [op |-> "init_", arg |-> "", threw |-> FALSE, sent |-> <<>>]

\* The images of a console that is not recording
IdleImages == [record |-> "RECORD", stop |-> "STOP_GREY",
               validate |-> "VALIDATION_GREY", worker |-> "WORKER"]

\* The item of localStorage: absent (getItem returns null), or the JSON
\* text of an array of names, kept as the array it denotes
NoItem == [isNull |-> TRUE, names |-> <<>>]
Item(names) == [isNull |-> FALSE, names |-> names]

\* The record kept in lastSave
NoSave == [op |-> "none", name |-> 0, result |-> <<>>]

\* The console as init_ leaves it: changeMode(IDLE) was run, nothing is
\* stored in localStorage, the script is empty
ConsoleIdle ==
  /\ projectNames = NoItem
  /\ nNames = 0
  /\ nResaves = 0
  /\ lastSave = NoSave
  /\ code = <<>>
  /\ lineToInsert_ = -1
  /\ recordedScript_ = <<>>
  /\ nCmds = 0
  /\ noConsole_ = FALSE
  /\ isRecording_ = FALSE
  /\ isPlaying_ = FALSE
  /\ mode_ = "IDLE"
  /\ btnsVisible = Range(modeAndBtns["IDLE"].btns)
  /\ images = IdleImages
  /\ lastCmd = NoCmd

----------------------------------------------------------------------------
(* JavaScript helpers *)

\* elem['xpaths'][0]
PrimaryXpath(elem) == IF Len(elem.xpaths) > 0 THEN elem.xpaths[1] ELSE Undef

\* infoMap['steps'][stepId]: the index of the step with that key, 0 if none
StepIndex(infoMap, stepId) ==
  IF \E k \in 1..Len(infoMap.steps) : infoMap.steps[k].key = stepId
  THEN CHOOSE k \in 1..Len(infoMap.steps) : infoMap.steps[k].key = stepId
  ELSE 0

\* seq.concat over a sequence of sequences
RECURSIVE Flatten(_)
Flatten(ss) == IF ss = <<>> THEN <<>> ELSE Head(ss) \o Flatten(Tail(ss))

----------------------------------------------------------------------------
(* The functions of the rebinder *)

\* updateElement_ with the element object replaced by a fresh one holding
\* the locator, instead of the four fields being assigned
updateElement_ReplacesElement(stepId, cmdMap, originalInfoMap) ==
  LET k == StepIndex(originalInfoMap, stepId)
      elemId == originalInfoMap.steps[k].elemId
      elem == originalInfoMap.elems[elemId]
  IN  IF k = 0 \/ elemId \notin DOMAIN originalInfoMap.elems
      THEN [threw |-> TRUE, infoMap |-> originalInfoMap, oldXpath |-> Undef]
      ELSE [threw |-> FALSE,
            infoMap |->
              [originalInfoMap EXCEPT !.elems[elemId] =
                 [selectors |-> cmdMap.selectors, xpaths |-> cmdMap.xpaths,
                  descriptor |-> cmdMap.descriptor,
                  iframeInfo |-> cmdMap.iframeInfo, rest |-> Undef]],
            oldXpath |-> PrimaryXpath(elem)]

\* updateElement_ storing the new locator as a new element and binding the
\* step to it, instead of updating the element the step is bound to
updateElement_AddsElement(stepId, cmdMap, originalInfoMap) ==
  LET k == StepIndex(originalInfoMap, stepId)
      elemId == originalInfoMap.steps[k].elemId
      elem == originalInfoMap.elems[elemId]
  IN  IF k = 0 \/ elemId \notin DOMAIN originalInfoMap.elems
      THEN [threw |-> TRUE, infoMap |-> originalInfoMap, oldXpath |-> Undef]
      ELSE [threw |-> FALSE,
            infoMap |->
              [steps |-> [originalInfoMap.steps EXCEPT ![k].elemId = "new"],
               elems |-> ("new" :>
                            [elem EXCEPT !.selectors = cmdMap.selectors,
                                         !.xpaths = cmdMap.xpaths,
                                         !.descriptor = cmdMap.descriptor,
                                         !.iframeInfo = cmdMap.iframeInfo])
                         @@ originalInfoMap.elems],
            oldXpath |-> PrimaryXpath(elem)]

\* updateElement_ with the new xpaths put in front of the old ones instead
\* of replacing them
updateElement_KeepsOldXpaths(stepId, cmdMap, originalInfoMap) ==
  LET k == StepIndex(originalInfoMap, stepId)
      elemId == originalInfoMap.steps[k].elemId
      elem == originalInfoMap.elems[elemId]
  IN  IF k = 0 \/ elemId \notin DOMAIN originalInfoMap.elems
      THEN [threw |-> TRUE, infoMap |-> originalInfoMap, oldXpath |-> Undef]
      ELSE [threw |-> FALSE,
            infoMap |->
              [originalInfoMap EXCEPT !.elems[elemId] =
                 [elem EXCEPT !.selectors = cmdMap.selectors,
                              !.xpaths = cmdMap.xpaths \o elem.xpaths,
                              !.descriptor = cmdMap.descriptor,
                              !.iframeInfo = cmdMap.iframeInfo]],
            oldXpath |-> PrimaryXpath(elem)]

\* updateElement_(stepId, cmdMap, originalInfoMap).  It mutates the element
\* in place and returns the old primary xpath; it throws a TypeError when
\* steps[stepId] is undefined (line 1058) or when the step's elemId is no
\* key of elems (line 1060).  The outcome is [threw, infoMap, oldXpath].
updateElement_(stepId, cmdMap, originalInfoMap) ==
  LET k == StepIndex(originalInfoMap, stepId)
      elemId == originalInfoMap.steps[k].elemId
      elem == originalInfoMap.elems[elemId]
  IN  IF k = 0 \/ elemId \notin DOMAIN originalInfoMap.elems
      THEN [threw |-> TRUE, infoMap |-> originalInfoMap, oldXpath |-> Undef]
      ELSE [threw |-> FALSE,
            infoMap |->
              [originalInfoMap EXCEPT !.elems[elemId] =
                 [elem EXCEPT !.selectors = cmdMap.selectors,
                              !.xpaths = cmdMap.xpaths,
                              !.descriptor = cmdMap.descriptor,
                              !.iframeInfo = cmdMap.iframeInfo]],
            oldXpath |-> PrimaryXpath(elem)]

\* MatchesOfStep with any entry of xpaths compared with the old xpath
MatchesOfStep_AnyXpath(testNm, infoMap, step, oldXpath) ==
  IF /\ step.elemId \in DOMAIN infoMap.elems
     /\ \/ PrimaryXpath(infoMap.elems[step.elemId]) = oldXpath
        \/ \E n \in 1..Len(infoMap.elems[step.elemId].xpaths) :
             infoMap.elems[step.elemId].xpaths[n] = oldXpath
  THEN <<[testName |-> testNm, stepName |-> step.stepName,
          elemId |-> step.elemId]>>
  ELSE <<>>

\* MatchesOfStep with an early exit when the old xpath is empty or undefined
MatchesOfStep_SkipsEmptyXpath(testNm, infoMap, step, oldXpath) ==
  IF /\ oldXpath \notin {Undef, ""}
     /\ step.elemId \in DOMAIN infoMap.elems
     /\ PrimaryXpath(infoMap.elems[step.elemId]) = oldXpath
  THEN <<[testName |-> testNm, stepName |-> step.stepName,
          elemId |-> step.elemId]>>
  ELSE <<>>

\* MatchesOfStep with a missing element read as an element without xpaths,
\* instead of the step being skipped
MatchesOfStep_NoElemCheck(testNm, infoMap, step, oldXpath) ==
  IF (IF step.elemId \in DOMAIN infoMap.elems
      THEN PrimaryXpath(infoMap.elems[step.elemId])
      ELSE Undef) = oldXpath
  THEN <<[testName |-> testNm, stepName |-> step.stepName,
          elemId |-> step.elemId]>>
  ELSE <<>>

\* The body of the for-in loop of getStepsFromInfoMap_ for one step: the
\* matches it pushes (none or one).
MatchesOfStep(testNm, infoMap, step, oldXpath) ==
  IF /\ step.elemId \in DOMAIN infoMap.elems
     /\ PrimaryXpath(infoMap.elems[step.elemId]) = oldXpath
  THEN <<[testName |-> testNm, stepName |-> step.stepName,
          elemId |-> step.elemId]>>
  ELSE <<>>

\* getStepsFromInfoMap_ without the final length check
getStepsFromInfoMap_NeverNull(testNm, infoMap, oldXpath) ==
  JsArray(Flatten([k \in 1..Len(infoMap.steps) |->
            MatchesOfStep(testNm, infoMap, infoMap.steps[k], oldXpath)]))

\* getStepsFromInfoMap_(testName, infoMap, oldXpath): null or an array
getStepsFromInfoMap_(testNm, infoMap, oldXpath) ==
  LET allSteps == Flatten([k \in 1..Len(infoMap.steps) |->
                    MatchesOfStep(testNm, infoMap, infoMap.steps[k], oldXpath)])
  IN  IF Len(allSteps) = 0 THEN JsNull ELSE JsArray(allSteps)

\* getStepsWithSameXpath_(oldXpath) over projectInfo_.getTests()
getStepsWithSameXpath_(tests, oldXpath) ==
  LET stepsOfTest(i) ==
        getStepsFromInfoMap_(tests[i].name, tests[i].infoMap, oldXpath)
      allSteps == Flatten([i \in 1..Len(tests) |->
                    IF ~stepsOfTest(i).isNull THEN stepsOfTest(i).steps
                                              ELSE <<>>])
  IN  IF Len(allSteps) = 0 THEN JsNull ELSE JsArray(allSteps)

\* rpf.Tests: the index of the test with the given name, 0 if none
TestIndex(tests, testNm) ==
  IF \E i \in 1..Len(tests) : tests[i].name = testNm
  THEN CHOOSE i \in 1..Len(tests) : tests[i].name = testNm
  ELSE 0

\* updateElementInTest_(testName, stepId, cmdMap): getInfoMapByTest,
\* updateElement_, saveInfoMapToTest.  The outcome is [threw, tests].
updateElementInTest_(tests, testNm, stepId, cmdMap) ==
  LET i == TestIndex(tests, testNm)
      r == updateElement_(stepId, cmdMap, tests[i].infoMap)
  IN  IF i = 0 \/ r.threw
      THEN [threw |-> TRUE, tests |-> tests]
      ELSE [threw |-> FALSE, tests |-> [tests EXCEPT ![i].infoMap = r.infoMap]]

\* The value attribute of the checkbox the template renders for a match,
\* after value.split('___'): <<test name, step id>>.
NameAndStep(match) == <<match.testName, match.stepName>>

\* ReplaceLoop without the test of selectedSteps[i].checked
RECURSIVE ReplaceLoop_IgnoresChecked(_, _, _, _, _, _, _)
ReplaceLoop_IgnoresChecked(data, sel, from, newCmdMap, local, infoMap, tests) ==
  IF from > Len(data)
  THEN [threw |-> FALSE, infoMap |-> infoMap, tests |-> tests]
  ELSE LET nameAndStep == NameAndStep(data[from])
           inTest == updateElementInTest_(tests, nameAndStep[1],
                                          nameAndStep[2], newCmdMap)
           inOpen == updateElement_(nameAndStep[2], newCmdMap, infoMap)
       IN  IF local
           THEN IF inTest.threw
                THEN [threw |-> TRUE, infoMap |-> infoMap, tests |-> tests]
                ELSE ReplaceLoop_IgnoresChecked(data, sel, from + 1, newCmdMap,
                                                local, infoMap, inTest.tests)
           ELSE IF inOpen.threw
                THEN [threw |-> TRUE, infoMap |-> infoMap, tests |-> tests]
                ELSE ReplaceLoop_IgnoresChecked(data, sel, from + 1, newCmdMap,
                                                local, inOpen.infoMap, tests)

\* The loop of handleReplaceButton_ over the checkboxes data[from..], of
\* which those with an index in sel are checked.  It stops at the first
\* TypeError.  The outcome is [threw, infoMap, tests].
RECURSIVE ReplaceLoop(_, _, _, _, _, _, _)
ReplaceLoop(data, sel, from, newCmdMap, local, infoMap, tests) ==
  IF from > Len(data)
  THEN [threw |-> FALSE, infoMap |-> infoMap, tests |-> tests]
  ELSE IF from \notin sel
  THEN ReplaceLoop(data, sel, from + 1, newCmdMap, local, infoMap, tests)
  ELSE LET nameAndStep == NameAndStep(data[from])
       IN  IF local
           THEN LET r == updateElementInTest_(tests, nameAndStep[1],
                                              nameAndStep[2], newCmdMap)
                IN  IF r.threw
                    THEN [threw |-> TRUE, infoMap |-> infoMap, tests |-> tests]
                    ELSE ReplaceLoop(data, sel, from + 1, newCmdMap, local,
                                     infoMap, r.tests)
           ELSE LET r == updateElement_(nameAndStep[2], newCmdMap, infoMap)
                IN  IF r.threw
                    THEN [threw |-> TRUE, infoMap |-> infoMap, tests |-> tests]
                    ELSE ReplaceLoop(data, sel, from + 1, newCmdMap, local,
                                     r.infoMap, tests)

----------------------------------------------------------------------------
(* The handlers *)

\* The origin test with only the project info object tested
isLocal_AnyProject == Len(projectInfo_.tests) > 0

\* this.projectInfo_ && this.projectInfo_.getLoadFrom() == LOCAL_
isLocal == projectInfo_.loadFrom = LOCAL_

\* The record kept in last: the handler that ran (op), whether it threw, its
\* inputs, and, when it searched for matches, the old xpath and the result.
NoOp == [op |-> "init", threw |-> FALSE, stepId |-> Undef,
         cmdMap |-> CHOOSE c \in CmdMaps : TRUE, sel |-> {},
         searched |-> FALSE, oldXpath |-> Undef, found |-> JsNull]

\* showElementsWithSameXpath_ without the early return on null data
showElementsWithSameXpath_NoNullCheck(data, loadFrom, cmdMap) ==
  /\ dialog' = [open |-> TRUE, data |-> data.steps, loadFrom |-> loadFrom]
  /\ listeners' = listeners \o <<[button |-> "replaceAllXpaths",
                                  newCmdMap |-> cmdMap],
                                 [button |-> "cancelReplaceXpaths",
                                  newCmdMap |-> cmdMap]>>

\* showElementsWithSameXpath_(data, loadFrom, callback, cmdMap): nothing when
\* data is null; otherwise the callback presents the rendered matches and
\* calls registerEventsOnSameElements_, which listens on the two buttons.
showElementsWithSameXpath_(data, loadFrom, cmdMap) ==
  IF data.isNull
  THEN UNCHANGED <<dialog, listeners>>
  ELSE /\ dialog' = [open |-> TRUE, data |-> data.steps, loadFrom |-> loadFrom]
       /\ listeners' = listeners \o <<[button |-> "replaceAllXpaths",
                                       newCmdMap |-> cmdMap],
                                      [button |-> "cancelReplaceXpaths",
                                       newCmdMap |-> cmdMap]>>

\* A GET_TEST_NAMES_LOCALLY request awaits its response
GetInFlight ==
  \E k \in 1..Len(toBg) : toBg[k].command = "GET_TEST_NAMES_LOCALLY"

\* A rebind is pending from the UPDATE_ELEMENT_AT_LINE command until its
\* confirmation surface is closed.
RebindPending == dialog.open \/ GetInFlight \/ listeners # <<>>

\* updateElementAtLine_(line, cmdMap, callback), the handler of
\* UPDATE_ELEMENT_AT_LINE; stepId is the step id of the text at the line.
UpdateElementAtLine(stepId, cmdMap) ==
  /\ nRebinds < MaxRebinds
  /\ nRebinds' = nRebinds + 1
  /\ LET r == updateElement_(stepId, cmdMap, infoMap_)
     IN  IF r.threw
         THEN /\ last' = [NoOp EXCEPT !.op = "update", !.threw = TRUE,
                                      !.stepId = stepId, !.cmdMap = cmdMap]
              /\ UNCHANGED <<infoMap_, toBg, dialog, listeners>>
         ELSE /\ infoMap_' = r.infoMap
              /\ IF isLocal
                 THEN /\ toBg' = Append(toBg,
                            [command |-> "GET_TEST_NAMES_LOCALLY",
                             project |-> ProjectName, tests |-> <<>>,
                             cmdMap |-> cmdMap, oldXpath |-> r.oldXpath])
                      /\ last' = [NoOp EXCEPT !.op = "update",
                                    !.stepId = stepId, !.cmdMap = cmdMap,
                                    !.oldXpath = r.oldXpath]
                      /\ UNCHANGED <<dialog, listeners>>
                 ELSE LET data == getStepsFromInfoMap_(testName, r.infoMap,
                                                       r.oldXpath)
                      IN  /\ showElementsWithSameXpath_(data, WEB_, cmdMap)
                          /\ last' = [NoOp EXCEPT !.op = "update",
                                        !.stepId = stepId, !.cmdMap = cmdMap,
                                        !.oldXpath = r.oldXpath,
                                        !.searched = TRUE, !.found = data]
                          /\ UNCHANGED toBg
  /\ UNCHANGED <<testName, exportVars, consoleVars, projectInfo_, store>>

\* showElementsAfterProjectUpdated_ with the search run on the project info
\* as it was before the response, which is stored only afterwards
ShowElementsAfterProjectUpdated_SearchesStale ==
  /\ toBg # <<>>
  /\ Head(toBg).command = "GET_TEST_NAMES_LOCALLY"
  /\ LET msg == Head(toBg)
         response == [tests |-> store]
         data == getStepsWithSameXpath_(projectInfo_.tests, msg.oldXpath)
     IN  /\ projectInfo_' = [tests |-> response.tests, loadFrom |-> LOCAL_]
         /\ showElementsWithSameXpath_(data, LOCAL_, msg.cmdMap)
         /\ last' = [NoOp EXCEPT !.op = "response", !.cmdMap = msg.cmdMap,
                                 !.oldXpath = msg.oldXpath,
                                 !.searched = TRUE, !.found = data]
  /\ toBg' = Tail(toBg)
  /\ UNCHANGED <<infoMap_, testName, exportVars, consoleVars, store, nRebinds>>

\* The background handles GET_TEST_NAMES_LOCALLY and answers with the stored
\* project; the response runs showElementsAfterProjectUpdated_.
ShowElementsAfterProjectUpdated ==
  /\ toBg # <<>>
  /\ Head(toBg).command = "GET_TEST_NAMES_LOCALLY"
  /\ LET msg == Head(toBg)
         response == [tests |-> store]
         data == getStepsWithSameXpath_(response.tests, msg.oldXpath)
     IN  /\ projectInfo_' = [tests |-> response.tests, loadFrom |-> LOCAL_]
         /\ showElementsWithSameXpath_(data, LOCAL_, msg.cmdMap)
         /\ last' = [NoOp EXCEPT !.op = "response", !.cmdMap = msg.cmdMap,
                                 !.oldXpath = msg.oldXpath,
                                 !.searched = TRUE, !.found = data]
  /\ toBg' = Tail(toBg)
  /\ UNCHANGED <<infoMap_, testName, exportVars, consoleVars, store, nRebinds>>

\* The background handles SAVE_PROJECT_LOCALLY: the stored project is replaced.
SaveProjectLocally ==
  /\ toBg # <<>>
  /\ Head(toBg).command = "SAVE_PROJECT_LOCALLY"
  /\ store' = Head(toBg).tests
  /\ toBg' = Tail(toBg)
  /\ last' = [NoOp EXCEPT !.op = "saved"]
  /\ UNCHANGED <<infoMap_, testName, exportVars, consoleVars, projectInfo_, listeners, dialog, nRebinds>>

\* setProjectInfo(tests, loadFrom, opt_details), the handler of
\* SET_PROJECT_INFO
SetProjectInfo(tests, loadFrom) ==
  /\ projectInfo_' = [tests |-> tests, loadFrom |-> loadFrom]
  /\ last' = [NoOp EXCEPT !.op = "setProjectInfo"]
  /\ UNCHANGED <<infoMap_, testName, exportVars, consoleVars, store, toBg, listeners, dialog, nRebinds>>

\* The listener of the given button that a click runs: the one registered
\* on the button of the presentation now shown, which is the last one that
\* registerEventsOnSameElements_ added for that button id.
ListenerOf(button) ==
  CHOOSE k \in 1..Len(listeners) :
    /\ listeners[k].button = button
    /\ \A j \in (k + 1)..Len(listeners) : listeners[j].button # button

HasListener(button) ==
  \E k \in 1..Len(listeners) : listeners[k].button = button

\* handleReplaceButton_ without the final call of handleCancelButton_
HandleReplaceButton_NoCancel(sel) ==
  /\ dialog.open
  /\ HasListener("replaceAllXpaths")
  /\ LET newCmdMap == listeners[ListenerOf("replaceAllXpaths")].newCmdMap
         r == ReplaceLoop(dialog.data, sel, 1, newCmdMap, isLocal,
                          infoMap_, projectInfo_.tests)
     IN  /\ infoMap_' = r.infoMap
         /\ projectInfo_' = [projectInfo_ EXCEPT !.tests = r.tests]
         /\ last' = [NoOp EXCEPT !.op = "replace", !.threw = r.threw,
                                 !.cmdMap = newCmdMap, !.sel = sel]
         /\ toBg' = IF ~r.threw /\ isLocal
                    THEN Append(toBg,
                           [command |-> "SAVE_PROJECT_LOCALLY",
                            project |-> ProjectName, tests |-> r.tests,
                            cmdMap |-> newCmdMap, oldXpath |-> Undef])
                    ELSE toBg
  /\ UNCHANGED <<testName, exportVars, consoleVars, store, nRebinds, dialog, listeners>>

\* handleReplaceButton_(newCmdMap, onCancelHandler), run by a click on Replace
\* with the checkboxes of the indices in sel checked.  A TypeError ends the
\* handler where it is thrown: nothing is sent, the surface stays open and
\* the listeners stay.
HandleReplaceButton(sel) ==
  /\ dialog.open
  /\ HasListener("replaceAllXpaths")
  /\ LET newCmdMap == listeners[ListenerOf("replaceAllXpaths")].newCmdMap
         r == ReplaceLoop(dialog.data, sel, 1, newCmdMap, isLocal,
                          infoMap_, projectInfo_.tests)
     IN  /\ infoMap_' = r.infoMap
         /\ projectInfo_' = [projectInfo_ EXCEPT !.tests = r.tests]
         /\ last' = [NoOp EXCEPT !.op = "replace", !.threw = r.threw,
                                 !.cmdMap = newCmdMap, !.sel = sel]
         /\ IF r.threw
            THEN UNCHANGED <<toBg, dialog, listeners>>
            ELSE /\ toBg' = IF isLocal
                            THEN Append(toBg,
                                   [command |-> "SAVE_PROJECT_LOCALLY",
                                    project |-> ProjectName,
                                    tests |-> r.tests,
                                    cmdMap |-> newCmdMap, oldXpath |-> Undef])
                            ELSE toBg
                 \* handleCancelButton_(onCancelHandler)
                 /\ dialog' = NoDialog
                 /\ listeners' = <<>>
  /\ UNCHANGED <<testName, exportVars, consoleVars, store, nRebinds>>

\* handleCancelButton_ without updateAllHandler_.removeAll()
HandleCancelButton_KeepsListeners ==
  /\ dialog.open
  /\ HasListener("cancelReplaceXpaths")
  /\ dialog' = NoDialog
  /\ listeners' = listeners
  /\ last' = [NoOp EXCEPT !.op = "cancel"]
  /\ UNCHANGED <<infoMap_, testName, exportVars, consoleVars, projectInfo_, store, toBg, nRebinds>>

\* handleCancelButton_(onCancelHandler), run by a click on Cancel
HandleCancelButton ==
  /\ dialog.open
  /\ HasListener("cancelReplaceXpaths")
  /\ dialog' = NoDialog
  /\ listeners' = <<>>
  /\ last' = [NoOp EXCEPT !.op = "cancel"]
  /\ UNCHANGED <<infoMap_, testName, exportVars, consoleVars, projectInfo_, store, toBg, nRebinds>>

----------------------------------------------------------------------------
(* The specification *)

\* The console with the first test of a project open: the project was loaded
\* from the local server (which holds the same tests) or from the web, or no
\* project is loaded (a new test).
Init ==
  /\ \E p \in Projects :
       \/ /\ projectInfo_ = [tests |-> p, loadFrom |-> LOCAL_]
          /\ store = p
          /\ infoMap_ = p[1].infoMap
       \/ /\ projectInfo_ = [tests |-> p, loadFrom |-> WEB_]
          /\ store = <<>>
          /\ infoMap_ = p[1].infoMap
       \/ /\ projectInfo_ = [tests |-> <<>>, loadFrom |-> ""]
          /\ store = <<>>
          /\ infoMap_ = p[1].infoMap
  /\ testName = TestNames[1]
  /\ ExportDialogIdle
  /\ ConsoleIdle
  /\ toBg = <<>>
  /\ listeners = <<>>
  /\ dialog = NoDialog
  /\ nRebinds = 0
  /\ last = NoOp

\* The UI sends UPDATE_ELEMENT_AT_LINE only while no rebind is pending.
\* SET_PROJECT_INFO may arrive at any time; it is followed here while a
\* confirmation surface is open (a reload response overwrites an earlier one).
Next ==
  \/ \E stepId \in {StepKeys[k] : k \in 1..NumSteps[1]}, cmdMap \in CmdMaps :
       ~RebindPending /\ UpdateElementAtLine(stepId, cmdMap)
  \/ \E tests \in {<<>>, store, projectInfo_.tests}, loadFrom \in {LOCAL_, WEB_} :
       dialog.open /\ SetProjectInfo(tests, loadFrom)
  \/ ShowElementsAfterProjectUpdated
  \/ SaveProjectLocally
  \/ \E sel \in SUBSET (1..Len(dialog.data)) : HandleReplaceButton(sel)
  \/ HandleCancelButton

Spec == Init /\ [][Next]_vars

----------------------------------------------------------------------------
(* Vocabulary of the properties *)

XpathValues == {"x", "y", "z", Undef}

\* The open test as a one-test scope
OpenScope == <<[name |-> testName, infoMap |-> infoMap_]>>

\* The (test, step) index pairs of a scope whose step resolves to an element
\* with primary xpath X
Qualifying(tests, X) ==
  {p \in (1..Len(tests)) \X (1..Len(StepKeys)) :
     /\ p[2] <= Len(tests[p[1]].infoMap.steps)
     /\ LET im == tests[p[1]].infoMap
            id == im.steps[p[2]].elemId
        IN  /\ id \in DOMAIN im.elems
            /\ \/ Len(im.elems[id].xpaths) = 0 /\ X = Undef
               \/ Len(im.elems[id].xpaths) > 0 /\ im.elems[id].xpaths[1] = X}

\* The position of the pair p of Q in project order, then step order
Rank(p, Q) ==
  1 + Cardinality({q \in Q : q[1] < p[1] \/ (q[1] = p[1] /\ q[2] < p[2])})

\* res lists one Match for exactly the qualifying pairs, in order
ListsExactly(res, tests, X) ==
  LET Q == Qualifying(tests, X)
  IN  /\ Len(res.steps) = Cardinality(Q)
      /\ \A p \in Q :
           res.steps[Rank(p, Q)] =
             [testName |-> tests[p[1]].name,
              stepName |-> tests[p[1]].infoMap.steps[p[2]].stepName,
              elemId |-> tests[p[1]].infoMap.steps[p[2]].elemId]

\* The handler that just ran searched the whole project / the open test
SearchedProject == last.op = "response" /\ last.searched
SearchedOpenTest == last.op = "update" /\ last.searched

----------------------------------------------------------------------------
(* C1: findMatches returns one Match {testName, stepName, elemId} for exactly
   the (test, step) pairs whose step resolves to an element whose xpaths[0]
   equals the old xpath (a later entry of xpaths never matches), in project
   test order and, within a test, in step order; for the project search and
   for the search of a single InfoMap, for every xpath value and for the
   search each rebind performs. *)
C1_FindMatchesExact ==
  /\ \A X \in XpathValues :
       /\ ListsExactly(getStepsWithSameXpath_(projectInfo_.tests, X),
                       projectInfo_.tests, X)
       /\ ListsExactly(getStepsFromInfoMap_(testName, infoMap_, X),
                       OpenScope, X)
  /\ SearchedProject =>
       ListsExactly(last.found, projectInfo_.tests, last.oldXpath)
  /\ SearchedOpenTest => ListsExactly(last.found, OpenScope, last.oldXpath)

\* A project search that found matches in both tests and left out a step
\* whose element has the old xpath only as a later entry of xpaths.
C1_Witness ==
  /\ SearchedProject
  /\ Len(last.found.steps) >= 2
  /\ last.found.steps[1].testName = TestNames[1]
  /\ last.found.steps[Len(last.found.steps)].testName = TestNames[2]
  /\ \E i \in 1..Len(projectInfo_.tests) :
       \E k \in 1..Len(projectInfo_.tests[i].infoMap.steps) :
         LET im == projectInfo_.tests[i].infoMap
             id == im.steps[k].elemId
         IN  /\ id \in DOMAIN im.elems
             /\ Len(im.elems[id].xpaths) = 2
             /\ im.elems[id].xpaths[2] = last.oldXpath
             /\ im.elems[id].xpaths[1] # last.oldXpath

(* C7: findMatches returns null exactly when no element of the scope
   qualifies, and otherwise a non-empty array, never an empty one; for a
   single InfoMap and for the whole project. *)
C7_AbsentNotEmpty ==
  LET Ok(res, tests, X) ==
        /\ res.isNull <=> Qualifying(tests, X) = {}
        /\ ~res.isNull => Len(res.steps) > 0
  IN  /\ \A X \in XpathValues :
            /\ Ok(getStepsWithSameXpath_(projectInfo_.tests, X),
                  projectInfo_.tests, X)
            /\ Ok(getStepsFromInfoMap_(testName, infoMap_, X), OpenScope, X)
      /\ SearchedProject => Ok(last.found, projectInfo_.tests, last.oldXpath)
      /\ SearchedOpenTest => Ok(last.found, OpenScope, last.oldXpath)

\* A search of the open test, which has steps bound to elements, that found
\* nothing
C7_Witness ==
  /\ SearchedOpenTest
  /\ last.found.isNull
  /\ \E k \in 1..Len(infoMap_.steps) :
       infoMap_.steps[k].elemId \in DOMAIN infoMap_.elems

----------------------------------------------------------------------------
(* Vocabulary of the replace and cancel properties.  In an action formula
   the unprimed variables are the state in which the button is clicked and
   last' names the handler that ran. *)

ReplaceStep == last'.op = "replace"
CancelStep == last'.op = "cancel"

\* The element carries the locator of the command map
HasLocator(elem, cmdMap) ==
  /\ elem.selectors = cmdMap.selectors
  /\ elem.xpaths = cmdMap.xpaths
  /\ elem.descriptor = cmdMap.descriptor
  /\ elem.iframeInfo = cmdMap.iframeInfo

\* The save request a replace sends for the given tests
SaveRequest(tests, cmdMap) ==
  [command |-> "SAVE_PROJECT_LOCALLY", project |-> ProjectName,
   tests |-> tests, cmdMap |-> cmdMap, oldXpath |-> Undef]

\* after differs from before at most in the four locator fields of elements
SameButLocators(before, after) ==
  /\ after.steps = before.steps
  /\ DOMAIN after.elems = DOMAIN before.elems
  /\ \A e \in DOMAIN before.elems : after.elems[e].rest = before.elems[e].rest

(* C3: a replace, like the update of the triggering step, changes in an
   ElementRecord only selectors, xpaths, descriptor and iframeInfo: no
   StepRecord (key, stepName, elemId) changes, no element is added or
   removed, and every other field of every element keeps its value, in the
   open test's InfoMap and in every test of the project. *)
C3_OnlyLocatorFields ==
  [][(ReplaceStep \/ last'.op = "update") =>
       /\ SameButLocators(infoMap_, infoMap_')
       /\ Len(projectInfo_'.tests) = Len(projectInfo_.tests)
       /\ \A i \in 1..Len(projectInfo_.tests) :
            /\ projectInfo_'.tests[i].name = projectInfo_.tests[i].name
            /\ SameButLocators(projectInfo_.tests[i].infoMap,
                               projectInfo_'.tests[i].infoMap)]_vars

\* A replace that applied the new locator to at least one selected match
C3_Witness ==
  /\ last.op = "replace"
  /\ ~last.threw
  /\ last.sel # {}
  /\ \/ \E e \in DOMAIN infoMap_.elems :
          /\ HasLocator(infoMap_.elems[e], last.cmdMap)
          /\ infoMap_.elems[e].rest = "r0"
     \/ \E i \in 1..Len(projectInfo_.tests) :
          \E e \in DOMAIN projectInfo_.tests[i].infoMap.elems :
            HasLocator(projectInfo_.tests[i].infoMap.elems[e], last.cmdMap)

(* C4: a cancel after the matches were presented changes no InfoMap (the
   open test's and every project test's are the same before and after),
   removes the pending listeners and sends no request. *)
C4_CancelMutatesNothing ==
  [][CancelStep =>
       /\ infoMap_' = infoMap_
       /\ projectInfo_' = projectInfo_
       /\ store' = store
       /\ listeners # <<>> /\ listeners' = <<>>
       /\ ~dialog'.open
       /\ toBg' = toBg]_vars

\* A cancel of a presentation of the matches of a project search
C4_Witness ==
  /\ last.op = "cancel"
  /\ projectInfo_.loadFrom = LOCAL_
  /\ Len(projectInfo_.tests) = 2
  /\ nRebinds > 0

(* C6: when the origin is not LOCAL at the click, a replace changes nothing
   but the open test's InfoMap: the project's tests and origin are
   unchanged and no request is sent. *)
C6_WebReplaceOnlyOpenTest ==
  [][(ReplaceStep /\ projectInfo_.loadFrom # LOCAL_) =>
       /\ projectInfo_' = projectInfo_
       /\ store' = store
       /\ toBg' = toBg]_vars

\* A completed replace under WEB origin that rebound an element of the open
\* test while the project holds tests
C6_Witness ==
  /\ last.op = "replace"
  /\ ~last.threw
  /\ last.sel # {}
  /\ projectInfo_.loadFrom = WEB_
  /\ Len(projectInfo_.tests) = 2
  /\ toBg = <<>>
  /\ \E e \in DOMAIN infoMap_.elems : HasLocator(infoMap_.elems[e], last.cmdMap)

(* C8: when the search of a rebind returns null, the confirmation surface
   is not opened and no listener is registered: the handler that searched
   leaves the surface and the listeners as they were, and after it no
   Replace or Cancel click is possible and no request of the rebind is
   left. *)
C8_AbsentNeverPresented ==
  /\ [][(last'.searched /\ last'.found.isNull) =>
          /\ dialog' = dialog
          /\ listeners' = listeners
          /\ toBg' = toBg \/ (toBg # <<>> /\ toBg' = Tail(toBg))]_vars
  /\ []((last.searched /\ last.found.isNull) =>
          /\ ~dialog.open
          /\ listeners = <<>>
          /\ ~GetInFlight
          /\ ~ENABLED (\E sel \in SUBSET (1..Len(dialog.data)) :
                         HandleReplaceButton(sel))
          /\ ~ENABLED HandleCancelButton)

\* A rebind whose search, over an InfoMap with bound steps, returned null
C8_Witness ==
  /\ last.searched
  /\ last.found.isNull
  /\ nRebinds = 1
  /\ HasLocator(infoMap_.elems[infoMap_.steps[StepIndex(infoMap_, last.stepId)].elemId],
                last.cmdMap)

(* C9 as claimed: a replace with no match selected changes no InfoMap and
   sends no save request, for either origin. *)
C9_Claimed ==
  [][(ReplaceStep /\ last'.sel = {}) =>
       /\ infoMap_' = infoMap_
       /\ projectInfo_' = projectInfo_
       /\ toBg' = toBg]_vars

(* C9 amended: a replace with no match selected changes no InfoMap; when
   the origin is not LOCAL it sends no request, and when the origin is LOCAL
   it still sends one SAVE_PROJECT_LOCALLY carrying the unchanged project. *)
C9_NothingSelected ==
  [][(ReplaceStep /\ last'.sel = {}) =>
       /\ infoMap_' = infoMap_
       /\ projectInfo_' = projectInfo_
       /\ ~last'.threw
       /\ toBg' = IF projectInfo_.loadFrom = LOCAL_
                  THEN Append(toBg, SaveRequest(projectInfo_.tests, last'.cmdMap))
                  ELSE toBg]_vars

\* A replace with nothing selected under LOCAL origin, its save in flight
C9_Witness ==
  /\ last.op = "replace"
  /\ last.sel = {}
  /\ projectInfo_.loadFrom = LOCAL_
  /\ Len(projectInfo_.tests) = 2
  /\ Len(toBg) = 1
  /\ toBg[1].command = "SAVE_PROJECT_LOCALLY"

----------------------------------------------------------------------------
(* Replace properties that the handler does not have *)

\* The elements (test name, element id) that the checked matches refer to
Referenced(data, sel) == {<<data[k].testName, data[k].elemId>> : k \in sel}

(* C2 as claimed: after a replace with the matches of sel selected, every
   element a selected match refers to carries the new locator, and every
   other element of the scope the matches were found in (every test of the
   project for a LOCAL presentation, the open test otherwise) is unchanged. *)
C2_Claimed ==
  [][ReplaceStep =>
       LET R == Referenced(dialog.data, last'.sel)
           c == last'.cmdMap
       IN  IF dialog.loadFrom = LOCAL_
           THEN /\ \A r \in R :
                     \E i \in 1..Len(projectInfo_'.tests) :
                       /\ projectInfo_'.tests[i].name = r[1]
                       /\ r[2] \in DOMAIN projectInfo_'.tests[i].infoMap.elems
                       /\ HasLocator(projectInfo_'.tests[i].infoMap.elems[r[2]], c)
                /\ \A i \in 1..Len(projectInfo_.tests) :
                     \A e \in DOMAIN projectInfo_.tests[i].infoMap.elems :
                       <<projectInfo_.tests[i].name, e>> \notin R =>
                         /\ i <= Len(projectInfo_'.tests)
                         /\ projectInfo_'.tests[i].infoMap.elems[e] =
                              projectInfo_.tests[i].infoMap.elems[e]
           ELSE /\ \A r \in R :
                     /\ r[2] \in DOMAIN infoMap_'.elems
                     /\ HasLocator(infoMap_'.elems[r[2]], c)
                /\ \A e \in DOMAIN infoMap_.elems :
                     <<testName, e>> \notin R =>
                       infoMap_'.elems[e] = infoMap_.elems[e]
                /\ projectInfo_' = projectInfo_]_vars

(* C5 as claimed: with LOCAL origin a replace sends exactly one
   SAVE_PROJECT_LOCALLY, carrying the project name and the full test list as
   it is after every selected match was applied, and nothing else. *)
C5_Claimed ==
  [][(ReplaceStep /\ projectInfo_.loadFrom = LOCAL_) =>
       /\ toBg' = Append(toBg, SaveRequest(projectInfo_'.tests, last'.cmdMap))
       /\ \A r \in Referenced(dialog.data, last'.sel) :
            \A i \in 1..Len(projectInfo_'.tests) :
              (/\ projectInfo_'.tests[i].name = r[1]
               /\ r[2] \in DOMAIN projectInfo_'.tests[i].infoMap.elems) =>
                 HasLocator(projectInfo_'.tests[i].infoMap.elems[r[2]], last'.cmdMap)]_vars

\* The InfoMap a replace under the current origin looks the match up in: the
\* project test of that name (an InfoMap without steps if there is none)
\* for LOCAL, the open test's otherwise.
TargetInfoMap(tests, openInfoMap, local, match) ==
  IF ~local THEN openInfoMap
  ELSE IF TestIndex(tests, match.testName) = 0
       THEN [steps |-> <<>>, elems |-> <<>>]
       ELSE tests[TestIndex(tests, match.testName)].infoMap

\* The match names a test, a step and an element that are present
Present(infoMap, match) ==
  /\ StepIndex(infoMap, match.stepName) # 0
  /\ infoMap.steps[StepIndex(infoMap, match.stepName)].elemId
       \in DOMAIN infoMap.elems

(* C10 as claimed: a replace raises no error; a selected match that names a
   test, step or element that is not present is skipped, every other
   selected match is applied, the surface is closed and, for LOCAL origin,
   the project save follows. *)
C10_Claimed ==
  [][ReplaceStep =>
       LET local == projectInfo_.loadFrom = LOCAL_
       IN  /\ ~last'.threw
           /\ ~dialog'.open
           /\ local => /\ toBg' # toBg
                       /\ toBg'[Len(toBg')].command = "SAVE_PROJECT_LOCALLY"
           /\ \A k \in last'.sel :
                LET m == dialog.data[k]
                    before == TargetInfoMap(projectInfo_.tests, infoMap_, local, m)
                    after == TargetInfoMap(projectInfo_'.tests, infoMap_', local, m)
                IN  Present(before, m) =>
                      HasLocator(
                        after.elems[after.steps[StepIndex(after, m.stepName)].elemId],
                        last'.cmdMap)]_vars

----------------------------------------------------------------------------
(* A reload that fails *)

\* The response to GET_TEST_NAMES_LOCALLY carries no tests (an error response).
\* showElementsAfterProjectUpdated_ tests nothing: setProjectInfo stores
\* response['tests'], which is undefined, with the origin LOCAL_, and
\* getStepsWithSameXpath_ then throws a TypeError on tests.length, so nothing
\* is presented.  The undefined test list is kept as the empty list; nothing
\* reads it before the next setProjectInfo.
ShowElementsAfterProjectUpdatedFailed ==
  /\ toBg # <<>>
  /\ Head(toBg).command = "GET_TEST_NAMES_LOCALLY"
  /\ projectInfo_' = [tests |-> <<>>, loadFrom |-> LOCAL_]
  /\ last' = [NoOp EXCEPT !.op = "responseFailed", !.threw = TRUE,
                          !.cmdMap = Head(toBg).cmdMap,
                          !.oldXpath = Head(toBg).oldXpath]
  /\ toBg' = Tail(toBg)
  /\ UNCHANGED <<infoMap_, testName, exportVars, consoleVars, store, listeners, dialog, nRebinds>>

\* The console with reloads that succeed or fail
NextReload ==
  \/ Next
  \/ ShowElementsAfterProjectUpdatedFailed

SpecReload == Init /\ [][NextReload]_vars

\* The element of the open test that the reload's rebind was triggered on
\* still has the locator it had before the rebind
TriggerNotApplied(infoMap, cmdMap) ==
  \A e \in DOMAIN infoMap.elems : ~HasLocator(infoMap.elems[e], cmdMap)

(* C11 as claimed: when the reload of a LOCAL rebind fails, the failure is
   reported without an exception, the stored project info is not replaced
   by the failed response, no element of the open test carries the new
   locator of the rebind, and no confirmation is presented. *)
C11_Claimed ==
  [][last'.op = "responseFailed" =>
       /\ ~last'.threw
       /\ projectInfo_' = projectInfo_
       /\ TriggerNotApplied(infoMap_', last'.cmdMap)
       /\ ~dialog'.open
       /\ listeners' = <<>>]_vars

----------------------------------------------------------------------------
(* Rebinds that overlap *)

\* handleMessages_ runs updateElementAtLine_ for every UPDATE_ELEMENT_AT_LINE
\* command, whether or not an earlier rebind is still pending: the commands,
\* the reload responses and the clicks interleave freely.
NextOverlap ==
  \/ \E stepId \in {StepKeys[k] : k \in 1..NumSteps[1]}, cmdMap \in CmdMaps :
       UpdateElementAtLine(stepId, cmdMap)
  \/ ShowElementsAfterProjectUpdated
  \/ SaveProjectLocally
  \/ \E sel \in SUBSET (1..Len(dialog.data)) : HandleReplaceButton(sel)
  \/ HandleCancelButton

SpecOverlap == Init /\ [][NextOverlap]_vars

\* The number of save requests sent and not yet handled
SavesInFlight ==
  Cardinality({k \in 1..Len(toBg) : toBg[k].command = "SAVE_PROJECT_LOCALLY"})

(* C12 as claimed: over any interleaving of UPDATE_ELEMENT_AT_LINE commands,
   reload responses and Replace and Cancel clicks, a replace sends at most
   one save request and sends none while an earlier save request is still
   in flight. *)
C12_Claimed ==
  [][ReplaceStep =>
       /\ Len(toBg') <= Len(toBg) + 1
       /\ toBg' # toBg => SavesInFlight = 0]_vars

\* The handler that just ran closed the rebind it was clicked for
ClosingStep == CancelStep \/ (ReplaceStep /\ ~last'.threw)

\* The elements of an InfoMap that differ between before and after
Changed(before, after) ==
  {e \in DOMAIN before.elems : after.elems[e] # before.elems[e]}

(* C13: a replace takes effect only while a rebind is pending.  A cancel
   and a completed replace remove every listener and close the surface;
   while no listener is registered no Replace click runs the handler, so
   nothing is mutated or saved before the next presentation registers
   listeners again; and a replace runs with the command map of one
   registered listener, and every element it changes, in the open test and
   in every test of the project, carries the locator of that one map. *)
C13_ReplaceOnlyWhilePending ==
  /\ [][ClosingStep => listeners' = <<>> /\ ~dialog'.open]_vars
  /\ [](listeners = <<>> =>
          ~ENABLED (\E sel \in SUBSET (1..Len(dialog.data)) :
                      HandleReplaceButton(sel)))
  /\ [][ReplaceStep =>
          /\ \E k \in 1..Len(listeners) :
               /\ listeners[k].button = "replaceAllXpaths"
               /\ listeners[k].newCmdMap = last'.cmdMap
          /\ \A e \in Changed(infoMap_, infoMap_') :
               HasLocator(infoMap_'.elems[e], last'.cmdMap)
          /\ Len(projectInfo_'.tests) = Len(projectInfo_.tests)
          /\ \A i \in 1..Len(projectInfo_.tests) :
               \A e \in Changed(projectInfo_.tests[i].infoMap,
                                projectInfo_'.tests[i].infoMap) :
                 HasLocator(projectInfo_'.tests[i].infoMap.elems[e],
                            last'.cmdMap)]_vars

\* A completed replace that applied a locator, after which no listener is
\* left while the reload of a second rebind is still awaited
C13_Witness ==
  /\ last.op = "replace"
  /\ ~last.threw
  /\ last.sel # {}
  /\ listeners = <<>>
  /\ ~dialog.open
  /\ nRebinds = 2
  /\ GetInFlight

----------------------------------------------------------------------------
(* Algebraic properties of replace and cancel *)

\* The outcome of the loop of handleReplaceButton_ run on the given InfoMaps
\* for the presentation now shown, with the checkboxes of sel checked
Applied(sel, infoMap, tests) ==
  ReplaceLoop(dialog.data, sel, 1,
              listeners[ListenerOf("replaceAllXpaths")].newCmdMap,
              isLocal, infoMap, tests)

(* C14: replace is idempotent on a fixed selection.  For every presentation
   and every selection, running the loop of handleReplaceButton_ a second
   time with the same command map on the outcome of the first run gives the
   same InfoMaps (and the same error, if any) as the first run; and a
   Replace click that repeats the click before it (same selection, same
   command map, after an error left the surface open) changes no InfoMap. *)
C14_ReplaceIdempotent ==
  /\ [](dialog.open /\ HasListener("replaceAllXpaths") =>
          \A sel \in SUBSET (1..Len(dialog.data)) :
            LET once == Applied(sel, infoMap_, projectInfo_.tests)
                twice == Applied(sel, once.infoMap, once.tests)
            IN  twice = once)
  /\ [][(ReplaceStep /\ last.op = "replace" /\ last'.sel = last.sel
           /\ last'.cmdMap = last.cmdMap) =>
          /\ infoMap_' = infoMap_
          /\ projectInfo_' = projectInfo_]_vars

\* A presentation of at least two matches for which replacing all of them
\* succeeds and changes the elements
C14_Witness ==
  /\ dialog.open
  /\ HasListener("replaceAllXpaths")
  /\ Len(dialog.data) >= 2
  /\ LET once == Applied(1..Len(dialog.data), infoMap_, projectInfo_.tests)
     IN  /\ ~once.threw
         /\ once.infoMap # infoMap_ \/ once.tests # projectInfo_.tests

\* handleCancelButton_ called when a rebind need not be pending, failing
\* when there is no listener to remove
HandleCancelButtonCall_RequiresPending ==
  /\ last' = [NoOp EXCEPT !.op = "cancelCall", !.threw = (listeners = <<>>)]
  /\ dialog' = NoDialog
  /\ listeners' = <<>>
  /\ UNCHANGED <<infoMap_, testName, exportVars, consoleVars, projectInfo_, store, toBg, nRebinds>>

\* handleCancelButton_(onCancelHandler) called in any state, a rebind pending
\* or not: onCancelHandler() closes the surface (it stays closed if it is),
\* updateAllHandler_.removeAll() removes the listeners there are.
HandleCancelButtonCall ==
  /\ last' = [NoOp EXCEPT !.op = "cancelCall"]
  /\ dialog' = NoDialog
  /\ listeners' = <<>>
  /\ UNCHANGED <<infoMap_, testName, exportVars, consoleVars, projectInfo_, store, toBg, nRebinds>>

\* The console with cancel also called outside a confirmation
NextCancel ==
  \/ Next
  \/ HandleCancelButtonCall

SpecCancel == Init /\ [][NextCancel]_vars

\* No confirmation is shown and no listener is registered
NothingPresented == ~dialog.open /\ listeners = <<>>

(* C15: cancel is safe and idempotent.  Called when no confirmation is
   presented (before any rebind, after a completed replace or cancel), or a
   second time in a row, it raises no error and changes nothing: the open
   test's InfoMap, the project info, the listeners, the surface, the stored
   project and the requests in flight are the same before and after; and
   called at any time it raises no error and changes no InfoMap and no
   project info. *)
C15_CancelIdempotent ==
  /\ [][last'.op = "cancelCall" =>
          /\ ~last'.threw
          /\ infoMap_' = infoMap_
          /\ projectInfo_' = projectInfo_
          /\ store' = store /\ toBg' = toBg]_vars
  /\ [][(/\ last'.op = "cancelCall"
         /\ NothingPresented \/ last.op \in {"cancel", "cancelCall"}) =>
          /\ listeners' = listeners
          /\ dialog' = dialog]_vars

\* A cancel called after the only rebind was completed by a replace, whose
\* save is still in flight
C15_Witness ==
  /\ last.op = "cancelCall"
  /\ nRebinds = 1
  /\ SavesInFlight = 1
  /\ NothingPresented

----------------------------------------------------------------------------
(* Searches over InfoMaps with dangling steps and empty primary xpaths *)

\* An element id that is no key of elems
DanglingId == "e9"

\* xpaths of an element, including a primary xpath that is the empty string
FindXpathSeqs == XpathSeqs \cup {<<"">>}

\* The InfoMaps of InfoMaps(ns, ne), with steps that may also name an element
\* that does not exist and elements that may have '' as primary xpath
FindInfoMaps(ns, ne) ==
  LET ids == {ElemIds[k] : k \in 1..ne} \cup {Undef, DanglingId}
      StepSeqs == {s \in [1..ns -> [key : {StepKeys[k] : k \in 1..ns},
                                    stepName : {StepKeys[k] : k \in 1..ns},
                                    elemId : ids]] :
                     \A k \in 1..ns : /\ s[k].key = StepKeys[k]
                                      /\ s[k].stepName = StepKeys[k]}
      ElemFuns == [{ElemIds[k] : k \in 1..ne} ->
                     {Element(xp) : xp \in FindXpathSeqs}]
  IN  {[steps |-> s, elems |-> e] : s \in StepSeqs, e \in ElemFuns}

FindProjects ==
  {<<[name |-> TestNames[1], infoMap |-> a],
     [name |-> TestNames[2], infoMap |-> b]>> :
       a \in FindInfoMaps(NumSteps[1], NumElems[1]),
       b \in FindInfoMaps(NumSteps[2], NumElems[2])}

\* The console with the first test of such a project open, the project
\* loaded from the local server, or no project loaded
InitFind ==
  /\ \E p \in FindProjects :
       \/ /\ projectInfo_ = [tests |-> p, loadFrom |-> LOCAL_]
          /\ store = p
          /\ infoMap_ = p[1].infoMap
       \/ /\ projectInfo_ = [tests |-> <<>>, loadFrom |-> ""]
          /\ store = <<>>
          /\ infoMap_ = p[1].infoMap
  /\ testName = TestNames[1]
  /\ ExportDialogIdle
  /\ ConsoleIdle
  /\ toBg = <<>>
  /\ listeners = <<>>
  /\ dialog = NoDialog
  /\ nRebinds = 0
  /\ last = NoOp

\* Rebinds that are searched, presented and cancelled
NextFind ==
  \/ \E stepId \in {StepKeys[k] : k \in 1..NumSteps[1]}, cmdMap \in CmdMaps :
       ~RebindPending /\ UpdateElementAtLine(stepId, cmdMap)
  \/ ShowElementsAfterProjectUpdated
  \/ HandleCancelButton

SpecFind == InitFind /\ [][NextFind]_vars

FindXpathValues == XpathValues \cup {""}

\* The InfoMap without the steps whose elemId is unset or names no element
WithoutDangling(infoMap) ==
  [infoMap EXCEPT !.steps =
     SelectSeq(infoMap.steps, LAMBDA st : st.elemId \in DOMAIN infoMap.elems)]

ResolvedOnly(tests) ==
  [i \in 1..Len(tests) |-> [tests[i] EXCEPT !.infoMap = WithoutDangling(@)]]

(* C16: a step whose elemId is unset or names no element of its InfoMap is
   skipped silently by the search: the result is the one the search gives
   on the same scope with those steps removed, so such a step yields no
   Match and the scan goes on over the steps and tests after it; for every
   old xpath, for both search functions and for the searches of the
   rebinds, none of which ends with an error. *)
C16_DanglingStepsSkipped ==
  /\ \A X \in FindXpathValues :
       /\ getStepsWithSameXpath_(projectInfo_.tests, X) =
            getStepsWithSameXpath_(ResolvedOnly(projectInfo_.tests), X)
       /\ getStepsFromInfoMap_(testName, infoMap_, X) =
            getStepsFromInfoMap_(testName, WithoutDangling(infoMap_), X)
  /\ SearchedProject =>
       /\ ~last.threw
       /\ last.found = getStepsWithSameXpath_(ResolvedOnly(projectInfo_.tests),
                                              last.oldXpath)
  /\ SearchedOpenTest =>
       /\ ~last.threw
       /\ last.found = getStepsFromInfoMap_(testName, WithoutDangling(infoMap_),
                                            last.oldXpath)

\* A project search that passed a step naming a missing element in the first
\* test and found matches after it, in the first and in the second test
C16_Witness ==
  /\ SearchedProject
  /\ Len(projectInfo_.tests) = 2
  /\ projectInfo_.tests[1].infoMap.steps[1].elemId = DanglingId
  /\ Len(last.found.steps) = 2
  /\ last.found.steps[1].testName = TestNames[1]
  /\ last.found.steps[2].testName = TestNames[2]

\* The (test name, step name) pairs of a search result
Found(res) == {<<res.steps[k].testName, res.steps[k].stepName>> :
                 k \in 1..Len(res.steps)}

\* The (test name, step name) pairs of the steps of a scope bound to an
\* element whose primary xpath is one of Xs
BoundTo(tests, Xs) ==
  UNION {{<<tests[p[1]].name, tests[p[1]].infoMap.steps[p[2]].stepName>> :
            p \in Qualifying(tests, X)} : X \in Xs}

EmptyXpaths == {Undef, ""}

(* C17 as claimed: with an old xpath that is empty or undefined the search
   matches exactly the steps bound to an element whose primary xpath is
   empty, be it missing or the empty string. *)
C17_Claimed ==
  \A X \in EmptyXpaths :
    /\ Found(getStepsWithSameXpath_(projectInfo_.tests, X)) =
         BoundTo(projectInfo_.tests, EmptyXpaths)
    /\ Found(getStepsFromInfoMap_(testName, infoMap_, X)) =
         BoundTo(OpenScope, EmptyXpaths)

(* C17 amended: with an old xpath that is empty or undefined the search
   still scans the scope and matches exactly the steps bound to an element
   whose primary xpath equals it: an undefined old xpath matches the
   elements without a primary xpath and not those whose primary xpath is
   '', and the old xpath '' matches those and not the elements without
   one; no element with a non-empty primary xpath is matched.  For both
   search functions and for the searches of the rebinds. *)
C17_EmptyXpath ==
  /\ \A X \in EmptyXpaths :
       /\ ListsExactly(getStepsWithSameXpath_(projectInfo_.tests, X),
                       projectInfo_.tests, X)
       /\ ListsExactly(getStepsFromInfoMap_(testName, infoMap_, X),
                       OpenScope, X)
       /\ Found(getStepsWithSameXpath_(projectInfo_.tests, X))
            \subseteq BoundTo(projectInfo_.tests, EmptyXpaths)
  /\ (SearchedProject /\ last.oldXpath \in EmptyXpaths) =>
       ListsExactly(last.found, projectInfo_.tests, last.oldXpath)
  /\ (SearchedOpenTest /\ last.oldXpath \in EmptyXpaths) =>
       ListsExactly(last.found, OpenScope, last.oldXpath)

\* A project search for the old xpath '' that found a match while a step of
\* the project is bound to an element without any xpath
C17_Witness ==
  /\ SearchedProject
  /\ last.oldXpath = ""
  /\ ~last.found.isNull
  /\ BoundTo(projectInfo_.tests, {Undef}) # {}

----------------------------------------------------------------------------
(* Scope of the search *)

\* The UPDATE_ELEMENT_AT_LINE handler ran and updated the triggering element
UpdateStep == last'.op = "update" /\ ~last'.threw
ResponseStep == last'.op = "response"

(* C18: the scope of the search follows the origin.  With LOCAL origin the
   update handler searches nothing and presents nothing: it sends one
   GET_TEST_NAMES_LOCALLY; the search runs in the response handler, after
   the project info was replaced by the tests of the response, and lists
   the matches of every test of that reloaded project.  With WEB origin or
   without a project the update handler sends no request and searches at
   once, and it lists the matches of the open test's InfoMap only. *)
C18_ScopeFollowsOrigin ==
  /\ [][(UpdateStep /\ projectInfo_.loadFrom = LOCAL_) =>
          /\ ~last'.searched
          /\ Len(toBg') = Len(toBg) + 1
          /\ toBg'[Len(toBg')].command = "GET_TEST_NAMES_LOCALLY"
          /\ dialog' = dialog /\ listeners' = listeners
          /\ projectInfo_' = projectInfo_]_vars
  /\ [][(UpdateStep /\ projectInfo_.loadFrom # LOCAL_) =>
          /\ last'.searched
          /\ toBg' = toBg
          /\ projectInfo_' = projectInfo_
          /\ ListsExactly(last'.found,
                          <<[name |-> testName, infoMap |-> infoMap_']>>,
                          last'.oldXpath)
          /\ \A k \in 1..Len(last'.found.steps) :
               last'.found.steps[k].testName = testName
          /\ dialog'.open => dialog'.loadFrom = WEB_]_vars
  /\ [][ResponseStep =>
          /\ toBg # <<>> /\ Head(toBg).command = "GET_TEST_NAMES_LOCALLY"
          /\ last'.searched
          /\ projectInfo_' = [tests |-> store, loadFrom |-> LOCAL_]
          /\ ListsExactly(last'.found, store, last'.oldXpath)
          /\ dialog'.open => dialog'.loadFrom = LOCAL_ /\ ~last'.found.isNull]_vars

\* The reload response of a second rebind, whose search found matches in
\* both tests of the reloaded project and presented them
C18_Witness ==
  /\ SearchedProject
  /\ nRebinds = 2
  /\ projectInfo_.tests = store
  /\ dialog.open /\ dialog.loadFrom = LOCAL_
  /\ \E k \in 1..Len(dialog.data) : dialog.data[k].testName = TestNames[1]
  /\ \E k \in 1..Len(dialog.data) : dialog.data[k].testName = TestNames[2]

----------------------------------------------------------------------------
(* Reference integrity *)

\* The keys of steps and of elems and every step's elemId are the same in
\* both InfoMaps, and a step that resolved to an element resolves to the
\* element of the same key
SameReferences(before, after) ==
  /\ Len(after.steps) = Len(before.steps)
  /\ \A k \in 1..Len(before.steps) :
       /\ after.steps[k].key = before.steps[k].key
       /\ after.steps[k].elemId = before.steps[k].elemId
       /\ before.steps[k].elemId \in DOMAIN before.elems =>
            after.steps[k].elemId \in DOMAIN after.elems
  /\ DOMAIN after.elems = DOMAIN before.elems

\* A handler of the rebinder ran: the update of the triggering step, the
\* reload response with its search, a replace or a cancel
RebinderStep == last'.op \in {"update", "response", "replace", "cancel"}

(* C19: the rebinder preserves reference integrity.  No handler of a rebind
   (the update of the triggering step with its search, the reload response
   with its search, replace, cancel), whether it ends normally or with an
   error, adds or removes a key of steps or elems or changes a step's
   elemId, in the open test's InfoMap or in any test of the project; the
   reload response stores the project's tests exactly as the store holds
   them.  A step that resolved to an element before resolves to the same
   element key after. *)
C19_ReferenceIntegrity ==
  [][RebinderStep =>
       /\ SameReferences(infoMap_, infoMap_')
       /\ IF ResponseStep
          THEN projectInfo_'.tests = store
          ELSE /\ Len(projectInfo_'.tests) = Len(projectInfo_.tests)
               /\ \A i \in 1..Len(projectInfo_.tests) :
                    /\ projectInfo_'.tests[i].name = projectInfo_.tests[i].name
                    /\ SameReferences(projectInfo_.tests[i].infoMap,
                                      projectInfo_'.tests[i].infoMap)
       /\ store' = store]_vars

\* A completed replace under LOCAL origin that rebound an element of the
\* second test, in a project whose first test has a step without element
C19_Witness ==
  /\ last.op = "replace"
  /\ ~last.threw
  /\ projectInfo_.loadFrom = LOCAL_
  /\ Len(projectInfo_.tests) = 2
  /\ \E e \in DOMAIN projectInfo_.tests[2].infoMap.elems :
       HasLocator(projectInfo_.tests[2].infoMap.elems[e], last.cmdMap)
  /\ \E k \in 1..Len(projectInfo_.tests[1].infoMap.steps) :
       projectInfo_.tests[1].infoMap.steps[k].elemId = Undef

----------------------------------------------------------------------------
(* rpf.ExportDialog: loading a project and exporting it *)

rebinderVars == <<infoMap_, testName, projectInfo_, store, toBg, listeners,
                  dialog, nRebinds, last>>

\* this.data_ after a response that passed every check: the jsonObj, its
\* page_map parsed into an object
DataOf(responseObj) ==
  [isNull |-> FALSE, page_map |-> "object", tests |-> responseObj.tests]

\* this.data_ as assigned from responseObj['jsonObj'], no check made yet
RawData(responseObj) ==
  [isNull |-> FALSE, page_map |-> responseObj.page_map,
   tests |-> responseObj.tests]

\* What a run of requestDataComplete_ leaves: this.data_, whether callback()
\* was reached, and whether the run ended with an uncaught exception
Failed == [data |-> NullData, called |-> FALSE, threw |-> FALSE]

\* requestDataComplete_ without the test of the tests of the project
requestDataComplete_NoTestsCheck(responseObj) ==
  IF ~responseObj.jsonObj \/ responseObj.error
  THEN Failed
  ELSE IF responseObj.details = "text"
  THEN [data |-> RawData(responseObj), called |-> FALSE, threw |-> TRUE]
  ELSE IF responseObj.details # "both"
  THEN Failed
  ELSE IF responseObj.page_map \in {"number", "text"} \/ responseObj.codeThrows
  THEN Failed
  ELSE [data |-> DataOf(responseObj), called |-> TRUE, threw |-> FALSE]

\* requestDataComplete_(name, callback, responseObj), from the assignment of
\* this.data_ on, for a response that is an object: the value this.data_ is
\* left with and whether callback() is reached.
requestDataComplete_(responseObj) ==
  IF ~responseObj.jsonObj \/ responseObj.error
  THEN Failed                                      \* PROJECT_NOT_FOUND
  ELSE IF responseObj.details = "absent"
  THEN Failed                                      \* PROJECT_MISSING_DETAILS
  ELSE IF responseObj.details = "text"             \* 'page_map' in details:
  THEN [data |-> RawData(responseObj),             \* TypeError, not caught
        called |-> FALSE, threw |-> TRUE]
  ELSE IF responseObj.details # "both"
  THEN Failed                                      \* PROJECT_MISSING_DETAILS
  ELSE IF \/ responseObj.page_map = "number"       \* throw new Error()
          \/ responseObj.page_map = "text"         \* goog.json.parse throws
          \/ responseObj.codeThrows                \* getWebdriverCode throws
  THEN Failed                                      \* 'Parse json failed.'
  ELSE IF responseObj.tests = "absent"
  THEN Failed                                      \* PROJECT_NO_TESTS
  ELSE [data |-> DataOf(responseObj), called |-> TRUE, threw |-> FALSE]

\* requestData_(opt_callback): nothing without a project name; otherwise the
\* elements are disabled and the request is sent with requestDataComplete_
\* bound to the name and the callback.  getStorageLocation_ throws when no
\* location is checked, after the elements were disabled.
requestData_(callback, op) ==
  /\ nRequests < MaxRequests
  /\ nRequests' = nRequests + 1
  /\ IF nameValue = ""
     THEN /\ lastExport' = [NoExportOp EXCEPT !.op = op, !.callback = callback]
          /\ UNCHANGED <<elementsDisabled, requests>>
     ELSE /\ elementsDisabled' = TRUE
          /\ IF location = ""
             THEN /\ lastExport' = [NoExportOp EXCEPT !.op = op,
                                      !.callback = callback, !.threw = TRUE]
                  /\ UNCHANGED requests
             ELSE /\ requests' = Append(requests,
                        [command |-> IF location = "web"
                                     THEN "GET_PROJECT"
                                     ELSE "GET_LOCAL_PROJECT",
                         name |-> nameValue, callback |-> callback])
                  /\ lastExport' = [NoExportOp EXCEPT !.op = op,
                                                      !.callback = callback]
  /\ UNCHANGED <<data_, exported>>

\* handleExportClicked_, run by a click on Export
HandleExportClicked ==
  /\ requestData_("handleExport_", "handleExportClicked_")
  /\ UNCHANGED <<nameValue, location, lifecycleVars, rebinderVars, consoleVars>>

\* A click on Go runs requestData_ with goog.nullFunction as callback
HandleGoClicked ==
  /\ requestData_("nullFunction", "requestData_")
  /\ UNCHANGED <<nameValue, location, lifecycleVars, rebinderVars, consoleVars>>

\* automateDialog(isWeb, project): setLocation_, setProjectName_, requestData_()
AutomateDialog(isWeb, project) ==
  /\ nRequests < MaxRequests
  /\ nRequests' = nRequests + 1
  /\ location' = IF isWeb THEN "web" ELSE "local"
  /\ nameValue' = project
  /\ IF project = ""
     THEN UNCHANGED <<elementsDisabled, requests>>
     ELSE /\ elementsDisabled' = TRUE
          /\ requests' = Append(requests,
                [command |-> IF isWeb THEN "GET_PROJECT"
                                      ELSE "GET_LOCAL_PROJECT",
                 name |-> project, callback |-> "nullFunction"])
  /\ lastExport' = [NoExportOp EXCEPT !.op = "automateDialog",
                                      !.callback = "nullFunction"]
  /\ UNCHANGED <<data_, exported, lifecycleVars, rebinderVars, consoleVars>>

\* handleExport_: the export request for the project held in this.data_
\* under the name typed in
ExportRequest(data) == [name |-> nameValue, data |-> data]

\* The response to the oldest project request arrives and runs
\* requestDataComplete_(name, callback, responseObj): the elements are
\* enabled; a response that is no object ends the handler with a TypeError
\* at 'jsonObj' in responseObj, this.data_ not assigned; otherwise
\* this.data_ is set and, when every check passed, callback() runs, which is handleExport_ for a request of
\* handleExportClicked_.
RequestDataComplete(responseObj) ==
  /\ requests # <<>>
  /\ requests' = Tail(requests)
  /\ elementsDisabled' = FALSE
  /\ LET callback == Head(requests).callback
         r == requestDataComplete_(responseObj)
     IN  IF ~responseObj.isObject
         THEN /\ lastExport' = [op |-> "requestDataComplete_",
                                callback |-> callback,
                                response |-> responseObj, threw |-> TRUE,
                                called |-> FALSE]
              /\ UNCHANGED <<data_, exported>>
         ELSE /\ data_' = r.data
              /\ exported' = IF r.called /\ callback = "handleExport_"
                             THEN Append(exported, ExportRequest(r.data))
                             ELSE exported
              /\ lastExport' = [op |-> "requestDataComplete_",
                                callback |-> callback,
                                response |-> responseObj, threw |-> r.threw,
                                called |-> r.called]
  /\ UNCHANGED <<nameValue, location, nRequests, lifecycleVars, rebinderVars, consoleVars>>

\* The export dialog, a project name typed in or not and a location chosen
\* or not, next to a console without a test
InitExport ==
  /\ infoMap_ = [steps |-> <<>>, elems |-> <<>>]
  /\ testName = ""
  /\ projectInfo_ = [tests |-> <<>>, loadFrom |-> ""]
  /\ store = <<>>
  /\ toBg = <<>>
  /\ listeners = <<>>
  /\ dialog = NoDialog
  /\ nRebinds = 0
  /\ last = NoOp
  /\ data_ = NullData
  /\ elementsDisabled = FALSE
  /\ nameValue \in {"", ProjectName}
  /\ location \in {"", "local", "web"}
  /\ requests = <<>>
  /\ exported = <<>>
  /\ nRequests = 0
  /\ lastExport = NoExportOp
  /\ ready_ = TRUE
  /\ dialog_ = "hidden"
  /\ elements_ = "loaded"
  /\ handlersStatic_ = "listening"
  /\ handlersDynamic_ = "empty"
  /\ saveRequests = <<>>
  /\ ConsoleIdle

NextExport ==
  \/ HandleExportClicked
  \/ HandleGoClicked
  \/ \E isWeb \in BOOLEAN, project \in {"", ProjectName} :
       AutomateDialog(isWeb, project)
  \/ \E responseObj \in Responses : RequestDataComplete(responseObj)

SpecExport == InitExport /\ [][NextExport]_vars

\* The response carries a project that passes every check the claim names:
\* no error, project_details with page_map and java_package_path, a page map
\* that is an object or parses, code generation that succeeds, and tests
ValidProject(responseObj) ==
  /\ responseObj.isObject
  /\ responseObj.jsonObj
  /\ ~responseObj.error
  /\ responseObj.details = "both"
  /\ responseObj.page_map \in {"object", "json"}
  /\ ~responseObj.codeThrows
  /\ responseObj.tests # "absent"

(* C20: an export request is made only by requestDataComplete_ handling the
   response to a request that handleExportClicked_ sent, and only when that
   response carried a valid project, which is then the project held in
   data_ and the one exported; the click itself exports nothing; and a
   response that fails a check (not an object, no jsonObj, error, missing
   details, unparsable page map, no tests) leads to no export request. *)
C20_ExportOnlyAfterValidReload ==
  /\ [][exported' # exported =>
          /\ lastExport'.op = "requestDataComplete_"
          /\ requests # <<>>
          /\ Head(requests).callback = "handleExport_"
          /\ ValidProject(lastExport'.response)
          /\ data_' = DataOf(lastExport'.response)
          /\ exported' = Append(exported,
                                [name |-> nameValue, data |-> data_'])]_vars
  /\ [][(/\ lastExport'.op = "requestDataComplete_"
         /\ ~ValidProject(lastExport'.response)) =>
          exported' = exported]_vars
  /\ [][lastExport'.op = "handleExportClicked_" =>
          /\ exported' = exported
          /\ data_' = data_
          /\ Len(requests') <= Len(requests) + 1]_vars

\* Two project requests were made and answered; the answer to the second,
\* sent by an Export click, carried its page map as a JSON string and led to
\* the one export made
C20_Witness ==
  /\ Len(exported) = 1
  /\ nRequests = 2
  /\ requests = <<>>
  /\ lastExport.op = "requestDataComplete_"
  /\ lastExport.callback = "handleExport_"
  /\ lastExport.response.page_map = "json"
  /\ ~data_.isNull

----------------------------------------------------------------------------
(* rpf.ExportDialog: saving the project details, and the life cycle *)

loadVars == <<data_, elementsDisabled, nameValue, location, requests,
              exported, nRequests>>

\* The parts of init that can throw
InitParts == {"initContent_", "initComponents_", "initStaticHandlers_"}

\* The checked state of the two location radios in the content rendered by
\* rpf.soy.Dialog.exportContent: none ("") or one of them
Locations == {"", "local", "web"}

\* The fields of a dialog that was constructed or destroyed
Unusable ==
  /\ ready_ = FALSE
  /\ data_ = NullData
  /\ dialog_ = "null"
  /\ elements_ = "empty"
  /\ handlersStatic_ = "null"
  /\ handlersDynamic_ = "null"

\* destroy(): the listeners are removed, the content leaves the document
\* and every reference is dropped
destroy ==
  /\ data_' = NullData
  /\ dialog_' = "null"
  /\ elements_' = "empty"
  /\ handlersDynamic_' = "null"
  /\ handlersStatic_' = "null"
  /\ ready_' = FALSE
  /\ elementsDisabled' = FALSE
  /\ nameValue' = ""
  /\ location' = ""

Destroy ==
  /\ destroy
  /\ lastExport' = [NoExportOp EXCEPT !.op = "destroy"]
  /\ UNCHANGED <<requests, exported, nRequests, saveRequests, rebinderVars, consoleVars>>

\* init() that reads ready_ where it is written
init_IgnoresReady(failsIn, checked) ==
  /\ IF failsIn \in InitParts
     THEN /\ destroy
          /\ lastExport' = [NoExportOp EXCEPT !.op = "init", !.threw = TRUE]
     ELSE /\ elements_' = "loaded"
          /\ handlersDynamic_' = "empty"
          /\ handlersStatic_' = "listening"
          /\ dialog_' = "hidden"
          /\ ready_' = TRUE
          /\ elementsDisabled' = FALSE
          /\ nameValue' = ""
          /\ location' = checked
          /\ lastExport' = [NoExportOp EXCEPT !.op = "init"]
          /\ UNCHANGED data_
  /\ UNCHANGED <<requests, exported, nRequests, saveRequests, rebinderVars, consoleVars>>

\* init(): nothing on a ready dialog; otherwise initContent_, initComponents_
\* and initStaticHandlers_ in turn, and destroy() when one of them throws
\* (failsIn names it, "none" for a run without exception).  checked is the
\* location radio checked in the rendered content.
ExportDialogInit(failsIn, checked) ==
  IF ready_
  THEN /\ lastExport' = [NoExportOp EXCEPT !.op = "init"]
       /\ UNCHANGED <<loadVars, lifecycleVars, rebinderVars, consoleVars>>
  ELSE init_IgnoresReady(failsIn, checked)

\* setVisible(display) that shows the dialog whether ready or not
SetVisible_NoReadyCheck(display) ==
  /\ dialog_' = IF display THEN "visible" ELSE "hidden"
  /\ lastExport' = [NoExportOp EXCEPT !.op = "setVisible"]
  /\ UNCHANGED <<loadVars, ready_, elements_, handlersStatic_,
                 handlersDynamic_, saveRequests, rebinderVars, consoleVars>>

\* setVisible(display)
SetVisible(display) ==
  /\ dialog_' = IF ready_ THEN (IF display THEN "visible" ELSE "hidden")
                ELSE dialog_
  /\ lastExport' = [NoExportOp EXCEPT !.op = "setVisible"]
  /\ UNCHANGED <<loadVars, ready_, elements_, handlersStatic_,
                 handlersDynamic_, saveRequests, rebinderVars, consoleVars>>

\* The user types a project name into the name field
TypeName(name) ==
  /\ elements_ = "loaded"
  /\ ~elementsDisabled
  /\ nameValue' = name
  /\ lastExport' = [NoExportOp EXCEPT !.op = "typeName"]
  /\ UNCHANGED <<data_, elementsDisabled, location, requests, exported,
                 nRequests, lifecycleVars, rebinderVars, consoleVars>>

\* The user checks one of the two location radios
CheckLocation(loc) ==
  /\ elements_ = "loaded"
  /\ ~elementsDisabled
  /\ location' = loc
  /\ lastExport' = [NoExportOp EXCEPT !.op = "checkLocation"]
  /\ UNCHANGED <<data_, elementsDisabled, nameValue, requests, exported,
                 nRequests, lifecycleVars, rebinderVars, consoleVars>>

\* handleSave_, run by a click on Save: nothing without a project name;
\* otherwise the elements are disabled and the save request is sent with
\* handleSaveComplete_ bound to the name.  getStorageLocation_ throws when
\* no location is checked, after the elements were disabled.
HandleSave ==
  /\ nRequests < MaxRequests
  /\ nRequests' = nRequests + 1
  /\ IF nameValue = ""
     THEN /\ lastExport' = [NoExportOp EXCEPT !.op = "handleSave_"]
          /\ UNCHANGED <<elementsDisabled, saveRequests>>
     ELSE /\ elementsDisabled' = TRUE
          /\ IF location = ""
             THEN /\ lastExport' = [NoExportOp EXCEPT !.op = "handleSave_",
                                                      !.threw = TRUE]
                  /\ UNCHANGED saveRequests
             ELSE /\ saveRequests' = Append(saveRequests,
                        [command |-> IF location = "web"
                                     THEN "SAVE_PROJECT"
                                     ELSE "SAVE_PROJECT_METADATA_LOCALLY",
                         name |-> nameValue])
                  /\ lastExport' = [NoExportOp EXCEPT !.op = "handleSave_"]
  /\ UNCHANGED <<data_, nameValue, location, requests, exported, ready_,
                 dialog_, elements_, handlersStatic_, handlersDynamic_,
                 rebinderVars, consoleVars>>

\* The response to the oldest save request arrives and runs
\* handleSaveComplete_(name, responseObj): the elements are enabled and the
\* status is set from the response.  On a destroyed dialog elements_ is {}
\* and element.hasAttribute ends the handler with a TypeError.
HandleSaveComplete ==
  /\ saveRequests # <<>>
  /\ saveRequests' = Tail(saveRequests)
  /\ IF elements_ = "loaded"
     THEN /\ elementsDisabled' = FALSE
          /\ lastExport' = [NoExportOp EXCEPT !.op = "handleSaveComplete_"]
     ELSE /\ lastExport' = [NoExportOp EXCEPT !.op = "handleSaveComplete_",
                                              !.threw = TRUE]
          /\ UNCHANGED elementsDisabled
  /\ UNCHANGED <<data_, nameValue, location, requests, exported, nRequests,
                 ready_, dialog_, elements_, handlersStatic_,
                 handlersDynamic_, rebinderVars, consoleVars>>

\* requestDataComplete_ run by a response that arrives after destroy():
\* elements_ is {} and element.hasAttribute ends the handler with a
\* TypeError before this.data_ is assigned
RequestDataCompleteDestroyed ==
  /\ elements_ = "empty"
  /\ requests # <<>>
  /\ requests' = Tail(requests)
  /\ lastExport' = [op |-> "requestDataComplete_",
                    callback |-> Head(requests).callback,
                    response |-> NoResponse, threw |-> TRUE,
                    called |-> FALSE]
  /\ UNCHANGED <<data_, elementsDisabled, nameValue, location, exported,
                 nRequests, lifecycleVars, rebinderVars, consoleVars>>

\* automateDialog on a dialog without elements: setLocation_ ends with a
\* TypeError at this.elements_[LOCAL].checked
AutomateDialogDestroyed ==
  /\ elements_ = "empty"
  /\ lastExport' = [NoExportOp EXCEPT !.op = "automateDialog", !.threw = TRUE]
  /\ UNCHANGED <<loadVars, lifecycleVars, rebinderVars, consoleVars>>

\* A dialog as its constructor leaves it, next to a console without a test
InitDialog ==
  /\ infoMap_ = [steps |-> <<>>, elems |-> <<>>]
  /\ testName = ""
  /\ projectInfo_ = [tests |-> <<>>, loadFrom |-> ""]
  /\ store = <<>>
  /\ toBg = <<>>
  /\ listeners = <<>>
  /\ dialog = NoDialog
  /\ nRebinds = 0
  /\ last = NoOp
  /\ Unusable
  /\ elementsDisabled = FALSE
  /\ nameValue = ""
  /\ location = ""
  /\ requests = <<>>
  /\ exported = <<>>
  /\ nRequests = 0
  /\ lastExport = NoExportOp
  /\ saveRequests = <<>>
  /\ ConsoleIdle

\* The buttons run their handlers while handlersStatic_ listens and the
\* buttons are not disabled
Clickable == handlersStatic_ = "listening" /\ ~elementsDisabled

\* The responses to a project request told apart here: none, a project
\* that is not found, one without tests, and one that passes every check
DialogResponses ==
  {NoResponse} \cup
  {r \in Responses : /\ r.jsonObj /\ r.details = "both"
                     /\ r.page_map = "object" /\ ~r.codeThrows
                     /\ (r.error => r.tests = "absent")
                     /\ r.tests # "empty"}

Deliver ==
  \/ \E responseObj \in DialogResponses :
       elements_ = "loaded" /\ RequestDataComplete(responseObj)
  \/ RequestDataCompleteDestroyed
  \/ HandleSaveComplete

NextDialog ==
  \/ \E failsIn \in InitParts \cup {"none"}, checked \in Locations :
       ExportDialogInit(failsIn, checked)
  \/ Destroy
  \/ \E display \in BOOLEAN : SetVisible(display)
  \/ \E name \in {"", ProjectName} : TypeName(name)
  \/ \E loc \in {"local", "web"} : CheckLocation(loc)
  \/ Clickable /\ HandleExportClicked
  \/ Clickable /\ HandleGoClicked
  \/ Clickable /\ HandleSave
  \/ \E isWeb \in BOOLEAN, project \in {"", ProjectName} :
       elements_ = "loaded" /\ AutomateDialog(isWeb, project)
  \/ AutomateDialogDestroyed
  \/ Deliver

SpecDialog == InitDialog /\ [][NextDialog]_vars

\* The messenger answers every request it was sent
SpecDialogFair == SpecDialog /\ WF_vars(Deliver)

(* C21: whenever the elements of the export dialog are disabled they are
   eventually enabled again, the messenger answering every request. *)
C21_Claimed == elementsDisabled ~> ~elementsDisabled

\* The part that holds: elements disabled with a load or save request in
\* flight are enabled again (or gone, after destroy)
C21_RequestInFlight ==
  (elementsDisabled /\ (requests # <<>> \/ saveRequests # <<>>))
     ~> ~elementsDisabled

----------------------------------------------------------------------------
(* rpf.ExportDialog: data_ after a response *)

\* The conditions on the response under which data_ may be non-null: no
\* error, project_details with page_map and java_package_path, a page map
\* that is an object or a string that parses, and tests
Loadable(responseObj) ==
  /\ responseObj.isObject
  /\ responseObj.jsonObj
  /\ ~responseObj.error
  /\ responseObj.details = "both"
  /\ responseObj.page_map \in {"object", "json"}
  /\ responseObj.tests # "absent"

\* A run of requestDataComplete_ that came to an end by return
Returned(op) == op.op = "requestDataComplete_" /\ ~op.threw

(* C22: after requestDataComplete_ has handled a response, data_ is
   non-null only if the response is loadable, and on every failure path
   (a response that is not a valid project) data_ is null and the callback
   was not invoked. *)
C22_Claimed ==
  [][lastExport'.op = "requestDataComplete_" =>
       /\ (~data_'.isNull => Loadable(lastExport'.response))
       /\ (~ValidProject(lastExport'.response) =>
             data_' = NullData /\ ~lastExport'.called)]_vars

\* The part that holds: the same for the runs that end by return
C22_WhenReturned ==
  [][Returned(lastExport') =>
       /\ (~data_'.isNull => Loadable(lastExport'.response))
       /\ (~ValidProject(lastExport'.response) =>
             data_' = NullData /\ ~lastExport'.called)]_vars

----------------------------------------------------------------------------
(* rpf.ExportDialog: life cycle *)

\* Everything but lastExport
dialogState == <<loadVars, lifecycleVars, rebinderVars, consoleVars>>

(* C27: a ready dialog has its dialog_ and both event handlers; a dialog
   that is not ready, be it constructed, destroyed or left by a failed init,
   has data_, dialog_ and both handlers null, also after a late response;
   destroy and a failed init leave the dialog not ready; init on a ready
   dialog and setVisible on a dialog that is not ready change nothing. *)
C27_Lifecycle ==
  /\ [](ready_ => /\ dialog_ # "null"
                  /\ handlersStatic_ # "null"
                  /\ handlersDynamic_ # "null")
  /\ [](~ready_ => Unusable)
  /\ [][(\/ lastExport'.op = "destroy"
         \/ lastExport'.op = "init" /\ lastExport'.threw) => ~ready_']_vars
  /\ [][(lastExport'.op = "init" /\ ready_) => UNCHANGED dialogState]_vars
  /\ [][(lastExport'.op = "setVisible" /\ ~ready_) =>
          UNCHANGED dialogState]_vars

\* setVisible was called on a dialog that had sent a request and was
\* destroyed before the answer came
C27_Witness ==
  /\ lastExport.op = "setVisible"
  /\ ~ready_
  /\ requests # <<>>
  /\ dialog_ = "null"

----------------------------------------------------------------------------
(* rpf.ConsoleManager: recording, playback and the console mode *)

\* changeMode(mode): nothing without the console UI; otherwise mode_ is set,
\* every button of Buttons is hidden and the buttons
\* modeAndBtns[mode]['btns'] are shown.  For an entry without 'btns' the
\* second loop ends with a TypeError at ['btns'].length.  The result is the
\* mode and the visible buttons left, and whether the call threw.
changeMode(mode) ==
  IF noConsole_
  THEN [mode |-> mode_, visible |-> btnsVisible, threw |-> FALSE]
  ELSE [mode |-> mode,
        visible |-> (btnsVisible \ Buttons) \cup
                      Range(modeAndBtns[mode].btns),
        threw |-> ~modeAndBtns[mode].hasBtns]

Cmd(op, arg, threw, sent) ==
  [op |-> op, arg |-> arg, threw |-> threw, sent |-> sent]

\* The argument opt_pass as kept in lastCmd
PassArg(pass) == IF pass THEN "pass" ELSE ""

\* startRecording(opt_pass) without the test of isPlaying_
startRecording_NoPlayingCheck(pass, moreInfoDiv) ==
  /\ IF noConsole_ /\ ~moreInfoDiv
     THEN /\ lastCmd' = Cmd("startRecording", PassArg(pass), TRUE, <<>>)
          /\ UNCHANGED <<isRecording_, mode_, btnsVisible, images>>
     ELSE IF ~noConsole_
     THEN IF images.record # "RECORD_GREY"
          THEN /\ images' = [images EXCEPT !.validate = "VALIDATION",
                                           !.record = "RECORD_GREY",
                                           !.stop = "STOP"]
               /\ isRecording_' = TRUE
               /\ mode_' = changeMode("RECORD").mode
               /\ btnsVisible' = changeMode("RECORD").visible
               /\ lastCmd' = Cmd("startRecording", PassArg(pass), FALSE,
                                 <<"START_RECORDING">>)
          ELSE /\ lastCmd' = Cmd("startRecording", PassArg(pass), FALSE, <<>>)
               /\ UNCHANGED <<isRecording_, mode_, btnsVisible, images>>
     ELSE /\ lastCmd' = Cmd("startRecording", PassArg(pass), FALSE,
                            <<"START_RECORDING">>)
          /\ UNCHANGED <<isRecording_, mode_, btnsVisible, images>>
  /\ UNCHANGED <<noConsole_, isPlaying_, rebinderVars, exportVars,
                 storageVars>>

\* startRecording(opt_pass).  moreInfoDiv: the document has the element
\* expandZippy_ styles, which the console's page has.
startRecording(pass, moreInfoDiv) ==
  IF ~(noConsole_ /\ ~moreInfoDiv) /\ isPlaying_ /\ ~pass
  THEN /\ lastCmd' = Cmd("startRecording", PassArg(pass), TRUE, <<>>)
       /\ UNCHANGED <<noConsole_, isRecording_, isPlaying_, mode_,
                      btnsVisible, images, rebinderVars, exportVars,
                      storageVars>>
  ELSE startRecording_NoPlayingCheck(pass, moreInfoDiv)

\* START_RECORDING: startRecording(params['passChecking'])
StartRecording(pass, moreInfoDiv) ==
  startRecording(pass, moreInfoDiv) /\ UNCHANGED editorVars

\* stopRecording() without the test of the stop image
StopRecording_NoStopCheck ==
  /\ IF noConsole_
     THEN /\ lastCmd' = Cmd("stopRecording", "", FALSE, <<"STOP_RECORDING">>)
          /\ UNCHANGED <<isRecording_, mode_, btnsVisible, images>>
     ELSE /\ images' = [images EXCEPT !.validate = "VALIDATION_GREY",
                                      !.record = "RECORD",
                                      !.stop = "STOP_GREY"]
          /\ isRecording_' = FALSE
          /\ mode_' = changeMode("VIEW").mode
          /\ btnsVisible' = changeMode("VIEW").visible
          /\ lastCmd' = Cmd("stopRecording", "", FALSE, <<"STOP_RECORDING">>)
  /\ UNCHANGED <<noConsole_, isPlaying_, rebinderVars, exportVars,
                 storageVars, editorVars>>

\* stopRecording(), run by STOP_RECORDING
StopRecording ==
  /\ IF noConsole_
     THEN /\ lastCmd' = Cmd("stopRecording", "", FALSE, <<"STOP_RECORDING">>)
          /\ UNCHANGED <<isRecording_, mode_, btnsVisible, images>>
     ELSE IF images.stop # "STOP_GREY"
     THEN /\ images' = [images EXCEPT !.validate = "VALIDATION_GREY",
                                      !.record = "RECORD",
                                      !.stop = "STOP_GREY"]
          /\ isRecording_' = FALSE
          /\ mode_' = changeMode("VIEW").mode
          /\ btnsVisible' = changeMode("VIEW").visible
          /\ lastCmd' = Cmd("stopRecording", "", FALSE, <<"STOP_RECORDING">>)
     ELSE /\ lastCmd' = Cmd("stopRecording", "", FALSE, <<>>)
          /\ UNCHANGED <<isRecording_, mode_, btnsVisible, images>>
  /\ UNCHANGED <<noConsole_, isPlaying_, rebinderVars, exportVars, storageVars, editorVars>>

\* startPlayback(method) without the test of isRecording_
StartPlayback_NoRecordingCheck(method, group, runnable) ==
  /\ IF noConsole_
     THEN \* playbackRuntimeDialog_ is created by initUI_: TypeError
          /\ lastCmd' = Cmd("startPlayback", method, TRUE, <<>>)
          /\ UNCHANGED <<isPlaying_, mode_, btnsVisible>>
     ELSE IF group
     THEN /\ lastCmd' = Cmd("startPlayback", method, FALSE,
                            <<"RUN_GROUP_TESTS">>)
          /\ UNCHANGED <<isPlaying_, mode_, btnsVisible>>
     ELSE IF runnable
     THEN /\ isPlaying_' = TRUE
          /\ mode_' = changeMode("PLAY").mode
          /\ btnsVisible' = changeMode("PLAY").visible
          /\ lastCmd' = Cmd("startPlayback", method, FALSE,
                            <<"CHECK_PLAYBACK_OPTION_AND_RUN">>)
     ELSE /\ lastCmd' = Cmd("startPlayback", method, TRUE, <<>>)
          /\ UNCHANGED <<isPlaying_, mode_, btnsVisible>>
  /\ UNCHANGED <<noConsole_, isRecording_, images, rebinderVars, exportVars, storageVars, editorVars>>

\* startPlayback(method), run by SET_PLAYBACK_ALL and SET_PLAYBACK_STEP.
\* group: several tests are selected in the playback dialog, or one that is
\* not the test open in the console; runnable: checkRunnable_().
StartPlayback(method, group, runnable) ==
  IF isRecording_
  THEN /\ lastCmd' = Cmd("startPlayback", method, TRUE, <<>>)
       /\ UNCHANGED <<noConsole_, isRecording_, isPlaying_, mode_,
                      btnsVisible, images, rebinderVars, exportVars, storageVars, editorVars>>
  ELSE StartPlayback_NoRecordingCheck(method, group, runnable)

\* UPDATE_WHEN_RUN_FINISHED: setPlayStatus(false, params['status']) and the
\* update of the playback dialog.  A missing status ends setPlayStatus with
\* a TypeError at opt_result.indexOf; without the console UI the editor
\* manager is missing and updateCurrentStep ends with a TypeError.
RunFinished(status) ==
  /\ IF status = Undef
     THEN /\ lastCmd' = Cmd("setPlayStatus", status, TRUE, <<>>)
          /\ UNCHANGED <<isPlaying_, mode_, btnsVisible>>
     ELSE /\ isPlaying_' = FALSE
          /\ mode_' = IF mode_ # "WORKER" THEN changeMode("VIEW").mode
                      ELSE mode_
          /\ btnsVisible' = IF mode_ # "WORKER"
                            THEN changeMode("VIEW").visible
                            ELSE btnsVisible
          /\ lastCmd' = Cmd("setPlayStatus", status, noConsole_, <<>>)
  /\ UNCHANGED <<noConsole_, isRecording_, images, rebinderVars, exportVars, storageVars, editorVars>>

\* CHANGE_MODE: changeMode(params['mode'])
ChangeMode(mode) ==
  /\ mode_' = changeMode(mode).mode
  /\ btnsVisible' = changeMode(mode).visible
  /\ lastCmd' = Cmd("changeMode", mode, changeMode(mode).threw, <<>>)
  /\ UNCHANGED <<noConsole_, isRecording_, isPlaying_, images, rebinderVars,
                 exportVars, storageVars, editorVars>>

\* startWorkerMode(), run by START_WORKER_MODE; the worker image is read
\* from the console's document
StartWorkerMode ==
  /\ ~noConsole_
  /\ IF images.worker = "WORKER_OFF"
     THEN /\ images' = [images EXCEPT !.worker = "WORKER"]
          /\ mode_' = changeMode("VIEW").mode
          /\ btnsVisible' = changeMode("VIEW").visible
          /\ lastCmd' = Cmd("startWorkerMode", "", FALSE,
                            <<"STOP_WORKER_MODE">>)
     ELSE /\ images' = [images EXCEPT !.worker = "WORKER_OFF"]
          /\ mode_' = changeMode("WORKER").mode
          /\ btnsVisible' = changeMode("WORKER").visible
          /\ lastCmd' = Cmd("startWorkerMode", "", FALSE,
                            <<"START_WORKER_MODE">>)
  /\ UNCHANGED <<noConsole_, isRecording_, isPlaying_, rebinderVars,
                 exportVars, storageVars, editorVars>>

\* startValidate(), run by START_VALIDATE
StartValidate ==
  /\ ~noConsole_
  /\ images' = [images EXCEPT !.validate =
                  IF @ = "VALIDATION_GREY" THEN @
                  ELSE IF @ = "VALIDATION_ON" THEN "VALIDATION"
                  ELSE "VALIDATION_ON"]
  /\ lastCmd' = Cmd("startValidate", "", FALSE, <<>>)
  /\ UNCHANGED <<noConsole_, isRecording_, isPlaying_, mode_, btnsVisible,
                 rebinderVars, exportVars, storageVars, editorVars>>

\* A console manager as its constructor leaves it, with the console UI
\* (init_ ran changeMode(IDLE)) or without it (initUI_ did not run: the
\* flags and the mode are undefined), no test open
InitConsole ==
  /\ infoMap_ = [steps |-> <<>>, elems |-> <<>>]
  /\ testName = ""
  /\ projectInfo_ = [tests |-> <<>>, loadFrom |-> ""]
  /\ store = <<>>
  /\ toBg = <<>>
  /\ listeners = <<>>
  /\ dialog = NoDialog
  /\ nRebinds = 0
  /\ last = NoOp
  /\ ExportDialogIdle
  /\ noConsole_ \in BOOLEAN
  /\ isRecording_ = FALSE
  /\ isPlaying_ = FALSE
  /\ mode_ = IF noConsole_ THEN Undef ELSE "IDLE"
  /\ btnsVisible = IF noConsole_ THEN {}
                   ELSE Range(modeAndBtns["IDLE"].btns)
  /\ images = IdleImages
  /\ lastCmd = NoCmd
  /\ projectNames = NoItem
  /\ nNames = 0
  /\ nResaves = 0
  /\ lastSave = NoSave
  /\ code = <<>>
  /\ lineToInsert_ = -1
  /\ recordedScript_ = <<>>
  /\ nCmds = 0

\* The status of a finished run (params['status'])
Statuses == {"passed", "stop", "failed", Undef}

\* The commands of the console, startRecording called with opt_pass in
\* Passes
ConsoleCommands(Passes) ==
  \/ \E pass \in Passes, moreInfoDiv \in BOOLEAN :
       (~noConsole_ => moreInfoDiv) /\ StartRecording(pass, moreInfoDiv)
  \/ StopRecording
  \/ \E method \in {"ALL", "STEP"}, group \in BOOLEAN, runnable \in BOOLEAN :
       StartPlayback(method, group, runnable)
  \/ \E status \in Statuses : RunFinished(status)
  \/ \E mode \in ConsoleModes : ChangeMode(mode)
  \/ StartWorkerMode
  \/ StartValidate

NextConsole == ConsoleCommands(BOOLEAN)

SpecConsole == InitConsole /\ [][NextConsole]_vars

\* The console with startRecording never called with opt_pass = true
NextNoPass == ConsoleCommands({FALSE})

SpecNoPass == InitConsole /\ [][NextNoPass]_vars

(* C23: with startRecording never called with opt_pass = true,
   isRecording_ and isPlaying_ are never both true; startPlayback while
   recording and startRecording while playing back end with an exception,
   leave both flags and the mode as they were and send no message. *)
C23_RecordPlayExclusive ==
  /\ [](~(isRecording_ /\ isPlaying_))
  /\ [][(\/ lastCmd'.op = "startPlayback" /\ isRecording_
         \/ lastCmd'.op = "startRecording" /\ isPlaying_) =>
          /\ lastCmd'.threw
          /\ lastCmd'.sent = <<>>
          /\ UNCHANGED <<isRecording_, isPlaying_, mode_, btnsVisible>>]_vars

\* startRecording was refused during a playback that had been started in
\* the console
C23_Witness ==
  /\ lastCmd.op = "startRecording"
  /\ lastCmd.threw
  /\ isPlaying_
  /\ mode_ = "PLAY"

\* With opt_pass = true the recording starts during the playback
PassOverlaps == isRecording_ /\ isPlaying_


\* A run of changeMode(mode) that came to its end leaving the mode m and
\* the buttons in visible: m is mode and visible are exactly the buttons of
\* the mode
Completed(cmd, m, visible) ==
  /\ ~cmd.threw
  /\ m = cmd.arg
  /\ visible = Range(modeAndBtns[cmd.arg].btns)

(* C24: for every console mode, changeMode(mode) with the console UI
   completes with mode_ = mode, the buttons listed for the mode visible and
   every other toolbar button hidden. *)
C24_Claimed ==
  [][(lastCmd'.op = "changeMode" /\ ~noConsole_) =>
       Completed(lastCmd', mode_', btnsVisible')]_vars

\* The part that holds: the same for the modes whose entry has a list of
\* buttons; for the others mode_ is set and every button is hidden, and the
\* call ends with an exception
C24_ModesWithButtons ==
  [][(lastCmd'.op = "changeMode" /\ ~noConsole_) =>
       IF modeAndBtns[lastCmd'.arg].hasBtns
       THEN Completed(lastCmd', mode_', btnsVisible')
       ELSE /\ lastCmd'.threw
            /\ mode_' = lastCmd'.arg
            /\ btnsVisible' = {}]_vars

----------------------------------------------------------------------------
(* rpf.ConsoleManager: the project names kept in localStorage *)

\* rpf.ConsoleManager.PROJECTS_LENGTH_
PROJECTS_LENGTH_ == 15

\* Project names, and the number of saves of a name saved before
MaxNames == 16
MaxResaves == 1

\* goog.array.indexOf(arr, obj), from 0; -1 if obj is not in arr
indexOf(arr, obj) ==
  IF \E k \in DOMAIN arr : arr[k] = obj
  THEN (CHOOSE k \in DOMAIN arr :
          arr[k] = obj /\ \A j \in 1..(k - 1) : arr[j] # obj) - 1
  ELSE -1

\* arr after arr.splice(index, 1), index counted from 0
RemoveAt(arr, index) ==
  [k \in 1..(Len(arr) - 1) |-> IF k <= index THEN arr[k] ELSE arr[k + 1]]

\* arr after arr.pop()
Pop(arr) == SubSeq(arr, 1, Len(arr) - 1)

\* saveProjectNamesToLocalStorage_(name): the item stored afterwards.  With
\* no item stored (or the empty string) the empty array is stored and the
\* name is not added.
saveProjectNamesToLocalStorage_(item, name) ==
  IF item.isNull
  THEN Item(<<>>)
  ELSE LET stored == item.names
           index == indexOf(stored, name)
           removed == IF index >= 0 THEN RemoveAt(stored, index) ELSE stored
           added == <<name>> \o removed
       IN  Item(IF Len(added) >= PROJECTS_LENGTH_ THEN Pop(added) ELSE added)

\* SAVE_PROJECT_NAME_INPUT: saveProjectNamesToLocalStorage_(params['name']).
\* The names are numbered in the order of their first save.
SaveProjectName(name) ==
  /\ \/ /\ name = nNames + 1
        /\ nNames < MaxNames
        /\ nNames' = name
        /\ UNCHANGED nResaves
     \/ /\ name <= nNames
        /\ nResaves < MaxResaves
        /\ nResaves' = nResaves + 1
        /\ UNCHANGED nNames
  /\ projectNames' = saveProjectNamesToLocalStorage_(projectNames, name)
  /\ lastSave' = [op |-> "save", name |-> name, result |-> <<>>]
  /\ UNCHANGED <<rebinderVars, exportVars, modeVars, editorVars>>

\* LOAD_PROJECT_NAME_INPUT: opt_callback(loadProjectNamesFromLocalStorage_())
LoadProjectNames ==
  /\ lastSave' = [op |-> "load", name |-> 0,
                  result |-> IF projectNames.isNull THEN <<>>
                             ELSE projectNames.names]
  /\ UNCHANGED <<projectNames, nNames, nResaves, rebinderVars, exportVars,
                 modeVars, editorVars>>

NextNames ==
  \/ \E name \in 1..MaxNames : SaveProjectName(name)
  \/ LoadProjectNames

\* The console of InitConsole with its UI, nothing stored in localStorage
InitNames == InitConsole /\ ~noConsole_

SpecNames == InitNames /\ [][NextNames]_vars

\* A step that saves a name
SaveStep == lastSave'.op = "save" /\ <<nNames, nResaves>>' # <<nNames, nResaves>>

\* The number of entries of arr that are obj
Occurrences(arr, obj) == Cardinality({k \in DOMAIN arr : arr[k] = obj})

\* after holds name first and once, and its other names are names of
\* before in the order they have there
SavedInFront(before, after, name) ==
  /\ Len(after) > 0
  /\ after[1] = name
  /\ Occurrences(after, name) = 1
  /\ LET rest == SelectSeq(after, LAMBDA x : x # name)
     IN  rest = SelectSeq(before, LAMBDA x : \E k \in DOMAIN rest : rest[k] = x)

(* C25: after saveProjectNamesToLocalStorage_(name), whatever was stored
   before, nothing included, name is the first entry of the stored list,
   occurs in it once, and the other names retained keep their order. *)
C25_Claimed ==
  [][SaveStep =>
       SavedInFront(projectNames.names, projectNames'.names,
                    lastSave'.name)]_vars

\* The part that holds: the same when an item was stored before
C25_WhenStored ==
  [][(SaveStep /\ ~projectNames.isNull) =>
       SavedInFront(projectNames.names, projectNames'.names,
                    lastSave'.name)]_vars

(* C26: the stored list never has more than PROJECTS_LENGTH_ entries, and
   has PROJECTS_LENGTH_ entries once that many distinct names were saved. *)
C26_Claimed ==
  /\ [](Len(projectNames.names) <= PROJECTS_LENGTH_)
  /\ [](nNames >= PROJECTS_LENGTH_ =>
          Len(projectNames.names) = PROJECTS_LENGTH_)

\* What holds: the list never has more than PROJECTS_LENGTH_ - 1 entries
C26_OneLess ==
  /\ [](Len(projectNames.names) <= PROJECTS_LENGTH_ - 1)
  /\ [](nNames >= PROJECTS_LENGTH_ =>
          Len(projectNames.names) = PROJECTS_LENGTH_ - 1)

----------------------------------------------------------------------------
(* rpf.ConsoleManager: adding recorded commands to the script *)

\* Commands recorded in a run, and the largest line given to setLineToInsert
MaxCmds == 3
MaxLine == 4

\* A script is a sequence of pieces of text; NL is the character '\n', any
\* other piece is text without a line break.
NL == "\n"

\* The generated command pCmd of the i-th ADD_NEW_COMMAND
CmdNames == <<"c1", "c2", "c3", "c4", "c5">>

\* The scripts updateScriptAndData is called with
Scripts == {<<>>, <<"a", NL>>, <<"a">>, <<"a", NL, "b", NL>>}

\* code.split('\n')
RECURSIVE split(_)
split(text) ==
  IF \E k \in DOMAIN text : text[k] = NL
  THEN LET k == CHOOSE i \in DOMAIN text :
                  text[i] = NL /\ \A j \in 1..(i - 1) : text[j] # NL
       IN  <<SubSeq(text, 1, k - 1)>> \o split(SubSeq(text, k + 1, Len(text)))
  ELSE <<text>>

\* allLines.join('\n')
RECURSIVE join(_)
join(allLines) ==
  IF Len(allLines) = 0 THEN <<>>
  ELSE IF Len(allLines) = 1 THEN allLines[1]
  ELSE allLines[1] \o <<NL>> \o join(Tail(allLines))

\* allLines after allLines.splice(start, 0, item): start counted from 0,
\* from the end when negative, and clamped to the array
splice(allLines, start, item) ==
  LET len == Len(allLines)
      at == IF start > len THEN len
            ELSE IF start < 0
            THEN (IF len + start < 0 THEN 0 ELSE len + start)
            ELSE start
  IN  SubSeq(allLines, 1, at) \o <<item>> \o SubSeq(allLines, at + 1, len)

\* The new code of addNewCommand (1779-1787) for the code and lineToInsert_
newCode(text, line, pCmd) ==
  IF line # -1
  THEN join(splice(split(text), line, <<pCmd>>))
  ELSE text \o <<pCmd, NL>>

\* getInsertLineNum(); getTotalLineCount() is the number of lines of the
\* editor's text
getInsertLineNum ==
  IF lineToInsert_ # -1 THEN lineToInsert_ ELSE Len(split(code)) - 1

\* ADD_NEW_COMMAND: addNewCommand(pCmd) in code view, no data command and
\* no command map.  Without the console UI the command is added to
\* recordedScript_.
AddNewCommand ==
  /\ nCmds < MaxCmds
  /\ nCmds' = nCmds + 1
  /\ LET pCmd == CmdNames[nCmds + 1]
     IN  IF noConsole_
         THEN /\ recordedScript_' = recordedScript_ \o <<pCmd>>
              /\ lastCmd' = Cmd("addNewCommand", pCmd, FALSE, <<>>)
              /\ UNCHANGED <<code, lineToInsert_>>
         ELSE /\ code' = newCode(code, lineToInsert_, pCmd)
              /\ lineToInsert_' = IF lineToInsert_ # -1
                                  THEN lineToInsert_ + 1 ELSE lineToInsert_
              /\ lastCmd' = Cmd("addNewCommand", pCmd, FALSE,
                                IF isPlaying_
                                THEN <<"INSERT_CMDS_WHILE_PLAYBACK">>
                                ELSE <<>>)
              /\ UNCHANGED recordedScript_
  /\ UNCHANGED <<noConsole_, isRecording_, isPlaying_, mode_, btnsVisible,
                 images, rebinderVars, exportVars, storageVars>>

\* ON_INSERT_ABOVE (below = 0) and ON_INSERT_BELOW (below = 1) with the
\* details dialog on line cur of the script: setLineToInsert and
\* startRecording().  Without the console UI there is no details dialog and
\* the handler ends with a TypeError.
OnInsert(cur, below) ==
  IF noConsole_
  THEN /\ lastCmd' = Cmd("onInsert", "", TRUE, <<>>)
       /\ UNCHANGED <<noConsole_, isRecording_, isPlaying_, mode_,
                      btnsVisible, images, rebinderVars, exportVars,
                      storageVars, editorVars>>
  ELSE /\ lineToInsert_' = cur + below
       /\ UNCHANGED <<code, recordedScript_, nCmds>>
       /\ startRecording(FALSE, TRUE)

\* setLineToInsert(line), as run by INSERT_CMD with the line of the playback
\* dialog
SetLineToInsert(line) ==
  /\ lineToInsert_ # line
  /\ lineToInsert_' = line
  /\ UNCHANGED <<code, recordedScript_, nCmds, modeVars, rebinderVars,
                 exportVars, storageVars>>

\* updateScriptAndData(script, data): the editor's code is replaced
UpdateScriptAndData(script) ==
  /\ ~noConsole_
  /\ nCmds = 0
  /\ code # script
  /\ code' = script
  /\ UNCHANGED <<lineToInsert_, recordedScript_, nCmds, modeVars,
                 rebinderVars, exportVars, storageVars>>

NextEditor ==
  \/ AddNewCommand
  \/ \E cur \in 0..(Len(split(code)) - 1), below \in {0, 1} :
       OnInsert(cur, below)
  \/ \E line \in -1..MaxLine : SetLineToInsert(line)
  \/ \E script \in Scripts : UpdateScriptAndData(script)
  \/ StopRecording
  \/ StartPlayback("ALL", FALSE, TRUE)
  \/ RunFinished("passed")

SpecEditor == InitConsole /\ [][NextEditor]_vars

\* A step of addNewCommand with the console UI
AddStep == ~noConsole_ /\ nCmds' = nCmds + 1

\* after is before with the one line pCmd put in as line index (from 0)
PlacedAt(before, after, index, pCmd) ==
  /\ index + 1 \in DOMAIN after
  /\ after[index + 1] = <<pCmd>>
  /\ RemoveAt(after, index) = before

\* The command of the step is line lineToInsert_ of the new script, the
\* other lines are the previous ones in their order, and lineToInsert_ is
\* one more
Inserted ==
  /\ PlacedAt(split(code), split(code'), lineToInsert_, CmdNames[nCmds'])
  /\ lineToInsert_' = lineToInsert_ + 1

\* The command of the step is a line of its own after which no text
\* follows, the other lines are the previous ones in their order, and
\* lineToInsert_ is still -1
Appended ==
  /\ \E index \in 0..(Len(split(code')) - 1) :
       /\ PlacedAt(split(code), split(code'), index, CmdNames[nCmds'])
       /\ \A k \in (index + 2)..Len(split(code')) : split(code')[k] = <<>>
  /\ lineToInsert_' = -1

(* C28: addNewCommand with the console UI in code view: with
   lineToInsert_ = k other than -1 the command becomes line k of the script,
   the previous lines keep their order and lineToInsert_ becomes k + 1 (so
   successive commands take the lines k, k + 1, ... in arrival order); with
   lineToInsert_ = -1 the command is appended as the last line and
   lineToInsert_ stays -1. *)
C28_Claimed ==
  [][AddStep => IF lineToInsert_ # -1 THEN Inserted ELSE Appended]_vars

\* The script is empty or its last line is ended by a line break
EndsLine == code = <<>> \/ code[Len(code)] = NL

\* What holds: the same for a line k up to the number of lines of the
\* script, and for appending to a script that ends its last line; the
\* command then is line getInsertLineNum() as read before the step
C28_InRange ==
  [][AddStep =>
       /\ (lineToInsert_ # -1 /\ lineToInsert_ <= Len(split(code)))
            => Inserted
       /\ (lineToInsert_ = -1 /\ EndsLine)
            => (Appended /\ PlacedAt(split(code), split(code'),
                                     getInsertLineNum, CmdNames[nCmds']))
       /\ (lineToInsert_ # -1 /\ lineToInsert_ > Len(split(code)))
            => (lineToInsert_' = lineToInsert_ + 1 /\ ~Inserted)
       /\ (lineToInsert_ = -1 /\ ~EndsLine) => ~Appended]_vars

----------------------------------------------------------------------------
(* The triggering step's element, in memory and in the saved project *)

\* The command maps of the rebinds that are pending: of a reload request in
\* flight and of the listeners of a presentation
PendingCmdMaps ==
  {toBg[k].cmdMap :
     k \in {j \in 1..Len(toBg) : toBg[j].command = "GET_TEST_NAMES_LOCALLY"}}
  \cup {listeners[k].newCmdMap : k \in 1..Len(listeners)}

\* The elements of the InfoMap that carry the locator of the command map
WithLocator(infoMap, cmdMap) ==
  {e \in DOMAIN infoMap.elems : HasLocator(infoMap.elems[e], cmdMap)}

(* C29: updateElementAtLine_ gives the element of the triggering step in the
   open test's InfoMap the new locator in the step in which it starts the
   search (the reload request is sent, or the open test was searched, with
   the element already overwritten), and every later step of the rebind
   keeps it: the response with or without matches, a cancel, a replace
   (completed or ended by an error), a SET_PROJECT_INFO and the save. *)
C29_TriggerKept ==
  [][/\ UpdateStep =>
          LET elemId ==
                infoMap_.steps[StepIndex(infoMap_, last'.stepId)].elemId
          IN  /\ HasLocator(infoMap_'.elems[elemId], last'.cmdMap)
              /\ \/ last'.cmdMap \in PendingCmdMaps'
                 \/ last'.searched /\ last'.found.isNull
     /\ nRebinds' = nRebinds =>
          \A c \in PendingCmdMaps :
            WithLocator(infoMap_, c) \subseteq WithLocator(infoMap_', c)]_vars

\* A replace with a match selected was completed for a project loaded from
\* LOCAL, and an element of the open test has the locator of the rebind
C29_Witness ==
  /\ last.op = "replace"
  /\ ~last.threw
  /\ last.sel # {}
  /\ isLocal
  /\ WithLocator(infoMap_, last.cmdMap) # {}

\* The InfoMap of the open test in the tests of a project
OpenTestIn(tests) == tests[TestIndex(tests, testName)].infoMap

\* The two elements have the same locator
SameLocator(a, b) ==
  /\ a.selectors = b.selectors
  /\ a.xpaths = b.xpaths
  /\ a.descriptor = b.descriptor
  /\ a.iframeInfo = b.iframeInfo

\* A replace that was completed with the origin LOCAL, the open test being
\* one of the tests saved
LocalReplaced ==
  /\ ReplaceStep
  /\ ~last'.threw
  /\ isLocal
  /\ TestIndex(projectInfo_'.tests, testName) # 0

\* The elements of the open test that the selected matches refer to
SelectedInOpenTest ==
  {dialog.data[k].elemId :
     k \in {j \in last'.sel : dialog.data[j].testName = testName}}

(* C30: after a completed replace with LOCAL origin, infoMap_ and the
   InfoMap of the open test in the saved project (the tests of the
   SAVE_PROJECT_LOCALLY request) have the same locator on every element the
   rebind touched: the element of the triggering step, which is the element
   of the open test carrying the new locator in the first rebind, and the
   element of every selected match of the open test. *)
C30_Claimed ==
  [][(LocalReplaced /\ nRebinds = 1) =>
       LET saved == OpenTestIn(projectInfo_'.tests)
       IN  /\ toBg'[Len(toBg')] =
                SaveRequest(projectInfo_'.tests, last'.cmdMap)
           /\ \A e \in WithLocator(infoMap_', last'.cmdMap)
                         \cup SelectedInOpenTest :
                /\ e \in DOMAIN saved.elems
                /\ e \in DOMAIN infoMap_'.elems
                /\ SameLocator(infoMap_'.elems[e], saved.elems[e])]_vars

\* What holds: the replace leaves infoMap_ as it is and gives the new
\* locator to the elements of the selected matches in the saved project
\* only, so the two agree on the triggering element exactly if its step was
\* among the selected matches, and on another selected element of the open
\* test only if it had the new locator in infoMap_ before
C30_OnlySavedSide ==
  [][LocalReplaced =>
       LET saved == OpenTestIn(projectInfo_'.tests)
       IN  /\ infoMap_' = infoMap_
           /\ \A e \in SelectedInOpenTest :
                /\ HasLocator(saved.elems[e], last'.cmdMap)
                /\ SameLocator(infoMap_'.elems[e], saved.elems[e])
                     <=> e \in WithLocator(infoMap_, last'.cmdMap)]_vars

----------------------------------------------------------------------------
(* The origin at the search and at the replace *)

\* The selected matches that were found in the test of the given name
SelectedOf(name) ==
  {k \in last'.sel : dialog.data[k].testName = name}

\* The replace changed the InfoMap of a test only if a selected match was
\* found in that test: the open test's, and that of every project test
NoCrossTest ==
  /\ infoMap_' # infoMap_ => SelectedOf(testName) # {}
  /\ \A i \in 1..Len(projectInfo_.tests) :
       projectInfo_'.tests[i].infoMap # projectInfo_.tests[i].infoMap
         => SelectedOf(projectInfo_.tests[i].name) # {}

\* The origin tested by the replace is the one of the presentation
SameOrigin == isLocal <=> dialog.loadFrom = LOCAL_

(* C31: a replace is applied under the origin that decided the scope of
   the search, whatever SET_PROJECT_INFO did to the project info between the
   presentation and the click: it raises no error and changes the InfoMap
   of a test only for matches found in that test. *)
C31_Claimed ==
  [][ReplaceStep => /\ SameOrigin
                    /\ ~last'.threw
                    /\ NoCrossTest]_vars

\* What holds: when the origin at the click is the origin of the
\* presentation and, for LOCAL, the project still has the test, step and
\* element of every selected match, the replace raises no error and
\* changes a test only for its own matches
C31_WhenUnchanged ==
  [][(/\ ReplaceStep
      /\ SameOrigin
      /\ \A k \in last'.sel :
           Present(TargetInfoMap(projectInfo_.tests, infoMap_, isLocal,
                                 dialog.data[k]), dialog.data[k]))
       => (~last'.threw /\ NoCrossTest)]_vars

----------------------------------------------------------------------------
(* The recording messages *)

\* The step sent the given command to the background
Sent(command) ==
  /\ lastCmd' # lastCmd
  /\ command \in Range(lastCmd'.sent)

\* The step ran the given function
Ran(op) == lastCmd' # lastCmd /\ lastCmd'.op = op

\* A step that sent nothing and left isRecording_ and mode_ as they were
Ignored ==
  /\ lastCmd'.sent = <<>>
  /\ isRecording_' = isRecording_
  /\ mode_' = mode_

(* C32: with the console UI, START_RECORDING is sent only while not
   recording and starts the recording, STOP_RECORDING is sent only while
   recording and ends it, and isRecording_ changes in no other step, so the
   two messages alternate, START_RECORDING first; startRecording while
   recording and stopRecording while not recording send nothing and leave
   isRecording_ and mode_ as they were. *)
C32_RecordingAlternates ==
  /\ [](~noConsole_ => (isRecording_ <=> images.record = "RECORD_GREY"))
  /\ [](~noConsole_ => (isRecording_ <=> images.stop = "STOP"))
  /\ [][~noConsole_ =>
          /\ Sent("START_RECORDING") => (~isRecording_ /\ isRecording_')
          /\ Sent("STOP_RECORDING") => (isRecording_ /\ ~isRecording_')
          /\ isRecording_' # isRecording_ =>
               (Sent("START_RECORDING") \/ Sent("STOP_RECORDING"))
          /\ (Ran("startRecording") /\ isRecording_) => Ignored
          /\ (Ran("stopRecording") /\ ~isRecording_) => Ignored]_vars

\* startRecording was called while recording, with the console UI
C32_Witness ==
  /\ ~noConsole_
  /\ isRecording_
  /\ lastCmd.op = "startRecording"
  /\ ~lastCmd.threw
  /\ lastCmd.sent = <<>>

====
